---- MODULE Spec2Model ----
(***************************************************************************)
(* Model of the synchronisation core of the mail client:                   *)
(*   core/src/sync/sync_manager.rs  SyncManager, trait SyncEngine          *)
(*   core/src/sync/pop3_sync.rs     Pop3Sync                               *)
(*   core/src/sync/imap_sync.rs     ImapSync                               *)
(*   core/src/sync/mod.rs           SyncStatus, SyncResult, SyncStats      *)
(*                                                                         *)
(* Processes: the task spawned by start_background_sync ("sched") and the  *)
(* callers of the &self methods of SyncManager.  An await that can suspend *)
(* separates two steps of a process.                                       *)
(***************************************************************************)
EXTENDS Naturals, Integers, Sequences, FiniteSets, TLC

\* ---------------------------------------------------------------- bounds
\* number of interval ticks the scheduler task observes
MaxTicks == 1
\* number of calls of &self methods made by the callers
MaxCalls == 2
\* number of operations of a server or of the database that fail
MaxFaults == 2
\* messages the IMAP server holds in INBOX and in SENT
InboxCount == 2
SentCount == 1
\* number of calls made by the clients of the cache
MaxCacheOps == 4
\* the last reading of the clock
MaxTime == 2
\* Cache.max_size, in bytes
MaxSize == 2
\* messages in one call of group_into_threads: lists of messages that differ
\* in their headers, and lists of messages that differ in their flags
MaxMsgs == 3
MaxSummaryMsgs == 2
\* the dates of the messages are 1..MaxDate
MaxDate == 3
\* characters of the subjects that are enumerated
MaxSubjectLen == 4

\* ---------------------------------------------------------------- domains
Accounts == {"a1", "a2", "a3"}
Callers == {"c1", "c2"}
Sched == "sched"
Procs == Callers \cup {Sched}
NoProc == "none"
NoAcct == "none"

\* account.rs: enum AccountType
AccountType == {"Gmail", "ImapSmtp", "Pop3"}

\* sync/mod.rs: enum SyncStatus
SyncStatus == {"Idle", "Running", "Paused", "Error"}

\* the server state of an IMAP account: its folders and their message counts
ServerFolders == <<"INBOX", "SENT">>
ServerCount(f) == IF f = "INBOX" THEN InboxCount ELSE SentCount
ServerTotal == InboxCount + SentCount

VARIABLES
    engines,        \* sync_engines: account id -> registered engine ("None" when absent)
    session,        \* ImapSync.session is Some
    status,         \* the engine's status field
    lastResult,     \* the engine's last_sync_result field
    rwWriter,       \* holder of the write guard of sync_engines
    stats,          \* SyncStats
    background_task,\* self.background_task is Some
    pc,             \* position of each process
    call,           \* the method and arguments a caller is executing
    ret,            \* value most recently returned to a caller
    pending,        \* account_ids of the tick not yet visited by the for loop
    cyc,            \* locals of sync_account_engine per process
    dbAccounts,     \* rows of table accounts
    dbMailboxes,    \* rows of table mailboxes
    dbMessages,     \* rows of table messages
    searchIndex,    \* keys of SimpleSearchIndex.messages
    ticks, calls, faults,   \* bound counters
    entries,        \* Cache.entries: key -> CacheEntry (NoEntry when absent)
    fsLink,         \* the cache directory: file path -> inode (0: no file)
    fsData,         \* the bytes of each inode
    cstats,         \* Cache.stats
    now,            \* OffsetDateTime::now_utc()
    cpc,            \* position of each client of the cache
    cloc,           \* arguments and locals of the call a client is executing
    cret,           \* value most recently returned by a method of Cache
    cops,           \* bound counter
    input_msgs,     \* the argument msgs of the last call of group_into_threads
    threads,        \* what that call returned
    raw,            \* the argument of the last call of normalize_subject
    normalized,     \* what that call returned
    lockAt,         \* the method a task runs and the next guard operation in it
    held            \* the guards a task holds

engineVars == <<engines, session, status, lastResult>>
ctlVars == <<background_task>>
dbVars == <<dbAccounts, dbMailboxes, dbMessages, searchIndex>>
boundVars == <<ticks, calls, faults>>

syncVars == <<engines, session, status, lastResult, rwWriter, stats, background_task,
              pc, call, ret, pending, cyc, dbAccounts,
              dbMailboxes, dbMessages, searchIndex, ticks, calls, faults>>
cacheVars == <<entries, fsLink, fsData, cstats, now, cpc, cloc, cret, cops>>

threadVars == <<input_msgs, threads, raw, normalized>>

lockVars == <<lockAt, held>>

vars == <<syncVars, cacheVars, threadVars, lockVars>>

\* ---------------------------------------------------------------- values
\* sync/mod.rs: struct SyncResult, wrapped in the AsgardResult of a cycle
\* (res is "Ok" or the error kind; "None" before any result)
NoResult == [res |-> "None", synced |-> 0, new |-> 0, upd |-> 0]
MkResult(r, s, n, u) == [res |-> r, synced |-> s, new |-> n, upd |-> u]

\* locals of sync_account_engine: the engine's account, the mailboxes still to
\* visit, and the three counters
NoCycle == [acct |-> NoAcct, todo |-> <<>>, synced |-> 0, new |-> 0, upd |-> 0]
NewCycle(a) == [NoCycle EXCEPT !.acct = a]

NoCall == [op |-> "none", acct |-> NoAcct, engine |-> "None", type |-> "None"]

\* sync/mod.rs: SyncStats::default()
DefaultStats == [total_syncs |-> 0, successful_syncs |-> 0, failed_syncs |-> 0,
                 total_messages_synced |-> 0]

\* positions inside sync_account_engine
CyclePhases == {"connect", "mailboxes", "fetch", "disconnect"}
InCycle(p) == pc[p] \in CyclePhases

\* ---------------------------------------------------------------- engines
\* SyncManager::add_account: the engine chosen for an account type
SelectEngine(t) ==
    CASE t = "Gmail"    -> "Pop3"
      [] t = "ImapSmtp" -> "Pop3"
      [] t = "Pop3"     -> "Pop3"

\* an operation of a server or of the database may fail while faults remain
MayFail(errs) == IF faults < MaxFaults THEN errs ELSE {}

\* outcomes of SyncEngine::connect
EngineConnect(kind) ==
    IF kind = "Pop3" THEN {"Unsupported"}
    ELSE {"Ok"} \cup MayFail({"Auth"})

\* outcomes of SyncEngine::disconnect
EngineDisconnect(kind, hasSession) ==
    IF kind = "Pop3" THEN {"Ok"}
    ELSE IF hasSession THEN {"Ok"} \cup MayFail({"Imap"}) ELSE {"Ok"}

\* outcomes of SyncEngine::sync_mailboxes
EngineSyncMailboxes(kind, hasSession) ==
    IF kind = "Pop3" THEN {"Ok"}
    ELSE IF hasSession THEN {"Ok"} \cup MayFail({"Imap"}) ELSE {"InvalidState"}

\* outcomes of SyncEngine::sync_mailbox_messages
EngineSyncMailboxMessages(kind, hasSession) ==
    IF kind = "Pop3" THEN {"Ok"}
    ELSE IF hasSession THEN {"Ok"} \cup MayFail({"Imap"}) ELSE {"InvalidState"}

\* an outcome that uses up one of the faults
IsFault(o) == o \in {"Auth", "Imap", "Storage"}
Charge(o) == IF IsFault(o) THEN faults + 1 ELSE faults

\* ---------------------------------------------------------------- ids
Ids(rows) == {r.id : r \in rows}
SeqRange(s) == {s[i] : i \in 1..Len(s)}
Prefix(s, k) == [i \in 1..k |-> s[i]]
Max(S) == IF S = {} THEN 0 ELSE CHOOSE x \in S : \A y \in S : x >= y

\* Uuid::new_v4 (Mailbox::new, Message::new) gives a value no stored object
\* carries.  A Uuid is written <<account, generation, name or uid>>: the
\* generation is one more than any generation stored for the account
MailboxGen(a) == 1 + Max({r.id[2] : r \in {x \in dbMailboxes : x.acct = a}})
MessageGen(a) == 1 + Max({r.id[2] : r \in {x \in dbMessages : x.acct = a}})

\* the Vec<Mailbox> of a successful sync_mailboxes: one Mailbox::new per folder
ListedMailboxes(kind, a) ==
    IF kind = "Pop3" THEN <<>>
    ELSE [i \in 1..Len(ServerFolders) |->
            [id |-> <<a, MailboxGen(a), ServerFolders[i]>>, acct |-> a,
             name |-> ServerFolders[i]]]

\* the Vec<Message> of a successful sync_mailbox_messages: one Message::new per
\* fetched message (parse_fetch_result), with the uid the server gave
FetchedMessages(kind, mb) ==
    IF kind = "Pop3" THEN <<>>
    ELSE [i \in 1..ServerCount(mb.name) |->
            [id |-> <<mb.acct, MessageGen(mb.acct), mb.name, i>>, acct |-> mb.acct,
             mailbox |-> mb.id, uid |-> i]]

\* ---------------------------------------------------------------- storage
\* a batch of n writes (`?` on each) that fails does so at its first write,
\* after 0 writes were done, and only while faults remain
FailAt(n) == IF n > 0 /\ "Storage" \in MayFail({"Storage"}) THEN {0} ELSE {}

\* lines 293-308: get_message(message.id) decides between update and create
ExistingIn(msgs, k, db) == Cardinality({i \in 1..k : msgs[i].id \in Ids(db)})

\* Database::create_message / update_message for the first k messages:
\* INSERT of a new id, UPDATE ... WHERE id = ? of a known one
PersistMessages(msgs, k, db) ==
    {r \in db : r.id \notin Ids(SeqRange(Prefix(msgs, k)))} \cup SeqRange(Prefix(msgs, k))

\* ---------------------------------------------------------------- locks
\* faulty variant of CanWrite: the write guard is granted whoever holds it
CanWrite_NoGuard(p) == TRUE

\* tokio RwLock::write on sync_engines is granted when no guard is held
CanWrite(p) == rwWriter = NoProc
\* tokio RwLock::read on sync_engines is granted when no write guard is held
CanRead(p) == rwWriter = NoProc

\* ---------------------------------------------------------------- Init
\* SyncManager::new, with a registry that holds one engine of each
\* implementation of trait SyncEngine (a1: ImapSync, a2: Pop3Sync; a3 unknown)
SyncInit ==
    /\ engines = [a \in Accounts |-> CASE a = "a1" -> "Imap" [] a = "a2" -> "Pop3" [] OTHER -> "None"]
    /\ session = [a \in Accounts |-> FALSE]
    /\ status = [a \in Accounts |-> "Idle"]
    /\ lastResult = [a \in Accounts |-> "None"]
    /\ rwWriter = NoProc
    /\ stats = DefaultStats
    /\ background_task = FALSE
    /\ pc = [p \in Procs |-> IF p = Sched THEN "none" ELSE "idle"]
    /\ call = [p \in Callers |-> NoCall]
    /\ ret = NoResult
    /\ pending = {}
    /\ cyc = [p \in Procs |-> NoCycle]
    /\ dbAccounts = {"a1", "a2"}
    /\ dbMailboxes = {}
    /\ dbMessages = {}
    /\ searchIndex = {}
    /\ ticks = 0 /\ calls = 0 /\ faults = 0

\* ---------------------------------------------------------------- one cycle
\* line 194: the for loop takes the next id of account_ids (a HashMap's key
\* order is arbitrary), or the loop ends and line 185 awaits the next tick
SchedAdvance(pend) ==
    IF pend = {}
    THEN /\ pc' = [pc EXCEPT ![Sched] = "tick"]
         /\ pending' = {}
         /\ cyc' = [cyc EXCEPT ![Sched] = NoCycle]
    ELSE \E a \in pend :
         /\ pc' = [pc EXCEPT ![Sched] = "lock"]
         /\ pending' = pend \ {a}
         /\ cyc' = [cyc EXCEPT ![Sched] = NewCycle(a)]

\* faulty variant of RecordStats: only a successful cycle is counted
RecordStats_OnlySuccess(st, r) ==
    IF r = "Ok" THEN [st EXCEPT !.successful_syncs = @ + 1] ELSE st

\* lines 204-217: match result: failed_syncs += 1 or successful_syncs += 1
RecordStats(st, r) ==
    IF r = "Ok"
    THEN [st EXCEPT !.successful_syncs = @ + 1]
    ELSE [st EXCEPT !.failed_syncs = @ + 1]

\* what sync_account does with the result of the cycle: it returns it (line 242)
ManualResult(p, r, c) ==
    /\ pc' = [pc EXCEPT ![p] = "idle"]
    /\ call' = [call EXCEPT ![p] = NoCall]
    /\ ret' = IF r = "Ok" THEN MkResult("Ok", c.synced, c.new, c.upd)
              ELSE MkResult(r, 0, 0, 0)
    /\ cyc' = [cyc EXCEPT ![p] = NoCycle]
    /\ UNCHANGED <<stats, pending>>

\* what the scheduler does with the result of the cycle (lines 204-218): the
\* stats are updated under their own guard and the for loop goes on
ScheduledResult(r) ==
    /\ stats' = RecordStats(stats, r)
    /\ SchedAdvance(pending)
    /\ UNCHANGED <<call, ret>>

\* sync_account_engine returns r (line 326, or a `?` before it) with the locals
\* c; the write guard of sync_engines held by its caller is dropped with it
FinishCycle(p, r, c) ==
    /\ rwWriter' = NoProc
    /\ faults' = Charge(r)
    /\ IF p = Sched THEN ScheduledResult(r) ELSE ManualResult(p, r, c)

\* the write guard is taken and sync_account_engine is entered
BeginCycle(p) ==
    /\ rwWriter' = p
    /\ pc' = [pc EXCEPT ![p] = "connect"]
    /\ UNCHANGED <<call, ret, pending, cyc, faults>>

\* faulty variant of SyncAccountLock: the result of get_mut is not looked at
\* and the cycle is started on whatever the id names
SyncAccountLock_NoLookup(p) ==
    /\ p \in Callers
    /\ pc[p] = "lock"
    /\ CanWrite(p)
    /\ BeginCycle(p)
    /\ UNCHANGED <<engineVars, stats, ctlVars, dbVars, ticks, calls>>
    /\ UNCHANGED <<cacheVars, threadVars, lockVars>>

\* sync_account lines 238-242: the write guard is granted; get_mut finds no
\* engine and `?` returns not_found (dropping the guard), or the cycle starts
SyncAccountLock(p) ==
    /\ p \in Callers
    /\ pc[p] = "lock"
    /\ CanWrite(p)
    /\ IF engines[cyc[p].acct] = "None"
       THEN /\ pc' = [pc EXCEPT ![p] = "idle"]
            /\ call' = [call EXCEPT ![p] = NoCall]
            /\ ret' = MkResult("NotFound", 0, 0, 0)
            /\ cyc' = [cyc EXCEPT ![p] = NoCycle]
            /\ UNCHANGED <<rwWriter, pending, faults>>
       ELSE BeginCycle(p)
    /\ UNCHANGED <<engineVars, stats, ctlVars, dbVars, ticks, calls>>
    /\ UNCHANGED <<cacheVars, threadVars, lockVars>>

\* faulty variant of SchedLock: an account without an engine ends the tick
SchedLock_AbortsTick ==
    /\ pc[Sched] = "lock"
    /\ CanWrite(Sched)
    /\ IF engines[cyc[Sched].acct] = "None"
       THEN /\ SchedAdvance({})
            /\ UNCHANGED <<rwWriter, call, ret, faults>>
       ELSE BeginCycle(Sched)
    /\ UNCHANGED <<engineVars, stats, ctlVars, dbVars, ticks, calls>>
    /\ UNCHANGED <<cacheVars, threadVars, lockVars>>

\* scheduler lines 195-201: the write guard is granted; get_mut finds no engine
\* and the loop continues, or the cycle starts
SchedLock ==
    /\ pc[Sched] = "lock"
    /\ CanWrite(Sched)
    /\ IF engines[cyc[Sched].acct] = "None"
       THEN /\ SchedAdvance(pending)
            /\ UNCHANGED <<rwWriter, call, ret, faults>>
       ELSE BeginCycle(Sched)
    /\ UNCHANGED <<engineVars, stats, ctlVars, dbVars, ticks, calls>>
    /\ UNCHANGED <<cacheVars, threadVars, lockVars>>

\* line 271: engine.connect().await?
CycleConnect(p) ==
    /\ pc[p] = "connect"
    /\ LET a == cyc[p].acct IN
       \E o \in EngineConnect(engines[a]) :
            IF o = "Ok"
            THEN /\ session' = [session EXCEPT ![a] = TRUE]
                 /\ pc' = [pc EXCEPT ![p] = "mailboxes"]
                 /\ UNCHANGED <<rwWriter, ret, call, cyc, faults, stats, pending>>
            ELSE /\ FinishCycle(p, o, cyc[p])
                 /\ UNCHANGED session
    /\ UNCHANGED <<engines, status, lastResult, ctlVars, dbVars, ticks, calls>>
    /\ UNCHANGED <<cacheVars, threadVars, lockVars>>

\* lines 274-282: engine.sync_mailboxes().await?, then create_mailbox(..)? for
\* each mailbox under the storage mutex
CycleMailboxes(p) ==
    /\ pc[p] = "mailboxes"
    /\ LET a == cyc[p].acct IN
       \E o \in EngineSyncMailboxes(engines[a], session[a]) :
         IF o # "Ok"
         THEN /\ FinishCycle(p, o, cyc[p])
              /\ UNCHANGED dbMailboxes
         ELSE LET mbs == ListedMailboxes(engines[a], a)
                  c == [cyc[p] EXCEPT !.todo = mbs]
              IN \/ /\ dbMailboxes' = dbMailboxes \cup SeqRange(mbs)
                    /\ cyc' = [cyc EXCEPT ![p] = c]
                    /\ pc' = [pc EXCEPT ![p] = IF mbs = <<>> THEN "disconnect" ELSE "fetch"]
                    /\ UNCHANGED <<rwWriter, ret, call, faults, stats, pending>>
                 \/ \E j \in FailAt(Len(mbs)) :
                      /\ dbMailboxes' = dbMailboxes \cup SeqRange(Prefix(mbs, j))
                      /\ FinishCycle(p, "Storage", c)
    /\ UNCHANGED <<engineVars, ctlVars, dbAccounts, dbMessages, searchIndex, ticks, calls>>
    /\ UNCHANGED <<cacheVars, threadVars, lockVars>>

\* lines 285-310, one iteration: engine.sync_mailbox_messages(mailbox).await?,
\* then for each message get_message(id)? and update or create in Storage and
\* in the search index, under both mutexes
CycleFetch(p) ==
    /\ pc[p] = "fetch"
    /\ LET a == cyc[p].acct
           mb == Head(cyc[p].todo)
       IN \E o \in EngineSyncMailboxMessages(engines[a], session[a]) :
         IF o # "Ok"
         THEN /\ FinishCycle(p, o, cyc[p])
              /\ UNCHANGED <<dbMessages, searchIndex>>
         ELSE LET msgs == FetchedMessages(engines[a], mb)
                  n == Len(msgs)
              IN \/ LET u == ExistingIn(msgs, n, dbMessages)
                        c == [cyc[p] EXCEPT !.todo = Tail(@), !.synced = @ + n,
                                            !.upd = @ + u, !.new = @ + (n - u)]
                    IN /\ dbMessages' = PersistMessages(msgs, n, dbMessages)
                       /\ searchIndex' = searchIndex \cup Ids(SeqRange(msgs))
                       /\ cyc' = [cyc EXCEPT ![p] = c]
                       /\ pc' = [pc EXCEPT ![p] = IF c.todo = <<>> THEN "disconnect" ELSE "fetch"]
                       /\ UNCHANGED <<rwWriter, ret, call, faults, stats, pending>>
                 \/ \E k \in FailAt(n) :
                      /\ dbMessages' = PersistMessages(msgs, k, dbMessages)
                      /\ searchIndex' = searchIndex \cup Ids(SeqRange(Prefix(msgs, k)))
                      /\ FinishCycle(p, "Storage", cyc[p])
    /\ UNCHANGED <<engineVars, ctlVars, dbAccounts, dbMailboxes, ticks, calls>>
    /\ UNCHANGED <<cacheVars, threadVars, lockVars>>

\* lines 313-326: engine.disconnect().await?, then Ok(SyncResult {..})
CycleDisconnect(p) ==
    /\ pc[p] = "disconnect"
    /\ LET a == cyc[p].acct IN
       \E o \in EngineDisconnect(engines[a], session[a]) :
            /\ session' = [session EXCEPT ![a] = FALSE]
            /\ FinishCycle(p, o, cyc[p])
    /\ UNCHANGED <<engines, status, lastResult, ctlVars, dbVars, ticks, calls>>
    /\ UNCHANGED <<cacheVars, threadVars, lockVars>>

\* ---------------------------------------------------------------- callers
\* a &self method is entered by an idle caller; the callers are
\* interchangeable, so c2 is the one that enters while c1 is inside a call
CanCall(p) ==
    /\ pc[p] = "idle"
    /\ calls < MaxCalls
    /\ p = "c2" => pc["c1"] # "idle"

Enter(p, op, a, e, at) ==
    /\ CanCall(p)
    /\ calls' = calls + 1
    /\ call' = [call EXCEPT ![p] = [op |-> op, acct |-> a, engine |-> e, type |-> "None"]]
    /\ pc' = [pc EXCEPT ![p] = at]

Return(p, r) ==
    /\ pc' = [pc EXCEPT ![p] = "idle"]
    /\ call' = [call EXCEPT ![p] = NoCall]
    /\ ret' = MkResult(r, 0, 0, 0)
    /\ faults' = Charge(r)

\* SyncManager::sync_account(account_id) is called: it awaits the write guard
CallSyncAccount(p, a) ==
    /\ Enter(p, "sync_account", a, "None", "lock")
    /\ cyc' = [cyc EXCEPT ![p] = NewCycle(a)]
    /\ UNCHANGED <<engineVars, rwWriter, stats, ctlVars, ret, pending, dbVars, ticks, faults>>
    /\ UNCHANGED <<cacheVars, threadVars, lockVars>>

\* SyncManager::add_account(account) is called; lines 120-129 build the engine
CallAddAccount(p, a, t) ==
    /\ CanCall(p)
    /\ calls' = calls + 1
    /\ call' = [call EXCEPT ![p] = [op |-> "add_account", acct |-> a,
                                    engine |-> SelectEngine(t), type |-> t]]
    /\ pc' = [pc EXCEPT ![p] = "add_store"]
    /\ UNCHANGED <<engineVars, rwWriter, stats, ctlVars, ret, pending, cyc, dbVars, ticks, faults>>
    /\ UNCHANGED <<cacheVars, threadVars, lockVars>>

\* lines 132-135: create_account(&account).await? (INSERT: the id is the
\* primary key of table accounts)
AddAccountStore(p) ==
    /\ pc[p] = "add_store"
    /\ LET a == call[p].acct IN
       \/ /\ a \notin dbAccounts
          /\ dbAccounts' = dbAccounts \cup {a}
          /\ pc' = [pc EXCEPT ![p] = "add_lock"]
          /\ UNCHANGED <<call, ret, faults>>
       \/ /\ a \in dbAccounts
          /\ UNCHANGED <<dbAccounts, faults>>
          /\ pc' = [pc EXCEPT ![p] = "idle"]
          /\ call' = [call EXCEPT ![p] = NoCall]
          /\ ret' = MkResult("Constraint", 0, 0, 0)
       \/ /\ a \notin dbAccounts
          /\ "Storage" \in MayFail({"Storage"})
          /\ UNCHANGED dbAccounts
          /\ Return(p, "Storage")
    /\ UNCHANGED <<engineVars, rwWriter, stats, ctlVars, pending, cyc, dbMailboxes,
                   dbMessages, searchIndex, ticks, calls>>
    /\ UNCHANGED <<cacheVars, threadVars, lockVars>>

\* lines 138-144: engines.insert(account_id, sync_engine) under the write guard
AddAccountInsert(p) ==
    /\ pc[p] = "add_lock"
    /\ CanWrite(p)
    /\ LET a == call[p].acct IN
       /\ engines' = [engines EXCEPT ![a] = call[p].engine]
       /\ session' = [session EXCEPT ![a] = FALSE]
       /\ status' = [status EXCEPT ![a] = "Idle"]
       /\ lastResult' = [lastResult EXCEPT ![a] = "None"]
    /\ Return(p, "Ok")
    /\ UNCHANGED <<rwWriter, stats, ctlVars, pending, cyc, dbVars, ticks, calls>>
    /\ UNCHANGED <<cacheVars, threadVars, lockVars>>

\* SyncManager::remove_account(account_id) is called
CallRemoveAccount(p, a) ==
    /\ Enter(p, "remove_account", a, "None", "rm_lock")
    /\ UNCHANGED <<engineVars, rwWriter, stats, ctlVars, ret, pending, cyc, dbVars, ticks, faults>>
    /\ UNCHANGED <<cacheVars, threadVars, lockVars>>

\* lines 150-157: engines.remove(&account_id) and engine.disconnect() under the
\* write guard; an Err of disconnect is logged by warn! (line 154) and dropped.
\* Without an engine under the id there is nothing to disconnect
RemoveAccountEngine(p) ==
    /\ pc[p] = "rm_lock"
    /\ CanWrite(p)
    /\ LET a == call[p].acct IN
       /\ engines' = [engines EXCEPT ![a] = "None"]
       /\ session' = [session EXCEPT ![a] = FALSE]
       /\ status' = [status EXCEPT ![a] = "Idle"]
       /\ lastResult' = [lastResult EXCEPT ![a] = "None"]
       /\ \E o \in (IF engines[a] = "None" THEN {"Ok"}
                     ELSE EngineDisconnect(engines[a], session[a])) :
            /\ pc' = [pc EXCEPT ![p] = IF o = "Ok" THEN "rm_store" ELSE "rm_logged"]
            /\ faults' = Charge(o)
    /\ UNCHANGED <<rwWriter, stats, ctlVars, call, ret, pending, cyc, dbVars, ticks, calls>>
    /\ UNCHANGED <<cacheVars, threadVars, lockVars>>

\* faulty variant of RemoveAccountStore: an Err of disconnect is returned to
\* the caller and the account stays persisted
RemoveAccountStore_Propagates(p) ==
    /\ pc[p] \in {"rm_store", "rm_logged"}
    /\ \E o \in (IF pc[p] = "rm_logged" THEN {"Imap"} ELSE {"Ok"}) :
         /\ dbAccounts' = IF o = "Ok" THEN dbAccounts \ {call[p].acct} ELSE dbAccounts
         /\ Return(p, o)
    /\ UNCHANGED <<engineVars, rwWriter, stats, ctlVars, pending, cyc, dbMailboxes,
                   dbMessages, searchIndex, ticks, calls>>
    /\ UNCHANGED <<cacheVars, threadVars, lockVars>>

\* lines 160-166: delete_account(account_id).await?
RemoveAccountStore(p) ==
    /\ pc[p] \in {"rm_store", "rm_logged"}
    /\ \E o \in {"Ok"} \cup MayFail({"Storage"}) :
         /\ dbAccounts' = IF o = "Ok" THEN dbAccounts \ {call[p].acct} ELSE dbAccounts
         /\ Return(p, o)
    /\ UNCHANGED <<engineVars, rwWriter, stats, ctlVars, pending, cyc, dbMailboxes,
                   dbMessages, searchIndex, ticks, calls>>
    /\ UNCHANGED <<cacheVars, threadVars, lockVars>>

\* SyncManager::get_stats (line 247): stats.read() and clone.  The stats guard
\* is only ever held within one step of its holder, so the call never waits
GetStats(p) ==
    /\ CanCall(p)
    /\ calls' = calls + 1
    /\ ret' = MkResult("Stats", stats.successful_syncs, stats.failed_syncs,
                       stats.total_messages_synced)
    /\ UNCHANGED <<engineVars, rwWriter, stats, ctlVars, pc, call, pending, cyc, dbVars,
                   ticks, faults>>
    /\ UNCHANGED <<cacheVars, threadVars, lockVars>>

\* SyncManager::get_all_status is called: it awaits sync_engines.read()
CallGetAllStatus(p) ==
    /\ Enter(p, "get_all_status", NoAcct, "None", "status_read")
    /\ UNCHANGED <<engineVars, rwWriter, stats, ctlVars, ret, pending, cyc, dbVars, ticks, faults>>
    /\ UNCHANGED <<cacheVars, threadVars, lockVars>>

\* lines 252-255: the read guard is granted and the statuses are collected
GetAllStatus(p) ==
    /\ pc[p] = "status_read"
    /\ CanRead(p)
    /\ Return(p, "Status")
    /\ UNCHANGED <<engineVars, rwWriter, stats, ctlVars, pending, cyc, dbVars, ticks, calls>>
    /\ UNCHANGED <<cacheVars, threadVars, lockVars>>

\* an operation of a Pop3Sync built by Pop3Sync::new is called on the engine
\* itself: the methods of trait SyncEngine and the inherent sync_messages
EngineOps == {"connect", "disconnect", "sync_mailboxes", "sync_mailbox_messages",
              "sync_messages"}

\* what the operation op of a Pop3Sync returns (pop3_sync.rs lines 32-48, 75-91)
Pop3Op(op) ==
    CASE op = "connect"               -> EngineConnect("Pop3")
      [] op = "disconnect"            -> EngineDisconnect("Pop3", FALSE)
      [] op = "sync_mailboxes"        -> EngineSyncMailboxes("Pop3", FALSE)
      [] op = "sync_mailbox_messages" -> EngineSyncMailboxMessages("Pop3", FALSE)
      [] op = "sync_messages"         -> {"Unsupported"}

CallEngineOp(p, op) ==
    /\ Enter(p, op, NoAcct, "Pop3", "engine_op")
    /\ UNCHANGED <<engineVars, rwWriter, stats, ctlVars, ret, pending, cyc, dbVars, ticks, faults>>
    /\ UNCHANGED <<cacheVars, threadVars, lockVars>>

EngineOpReturn(p) ==
    /\ pc[p] = "engine_op"
    /\ \E o \in Pop3Op(call[p].op) : Return(p, o)
    /\ UNCHANGED <<engineVars, rwWriter, stats, ctlVars, pending, cyc, dbVars, ticks, calls>>
    /\ UNCHANGED <<cacheVars, threadVars, lockVars>>

\* ---------------------------------------------------------------- scheduler
\* a &mut self method needs the manager exclusively: no &self call is running
Exclusive == \A p \in Callers : pc[p] = "idle"

\* lines 170-225, background_task is None: the task is spawned
StartBackgroundSync ==
    /\ Exclusive
    /\ ~background_task
    /\ background_task' = TRUE
    /\ pc' = [pc EXCEPT ![Sched] = "tick"]
    /\ UNCHANGED <<engineVars, rwWriter, stats, call, ret, pending, cyc, dbVars, boundVars>>
    /\ UNCHANGED <<cacheVars, threadVars, lockVars>>

\* lines 228-234: background_task.take() and task.abort().  The aborted task
\* is dropped at the await it is suspended at: its locals go, and with them a
\* write guard it holds; nothing after that await runs
StopBackgroundSync ==
    /\ Exclusive
    /\ background_task
    /\ background_task' = FALSE
    /\ pc' = [pc EXCEPT ![Sched] = "cancelled"]
    /\ rwWriter' = IF rwWriter = Sched THEN NoProc ELSE rwWriter
    /\ cyc' = [cyc EXCEPT ![Sched] = NoCycle]
    /\ pending' = {}
    /\ UNCHANGED <<engineVars, stats, call, ret, dbVars, boundVars>>
    /\ UNCHANGED <<cacheVars, threadVars, lockVars>>

\* lines 185-191: interval.tick().await completes and the keys of sync_engines
\* are cloned under the read guard
SchedTick ==
    /\ pc[Sched] = "tick"
    /\ ticks < MaxTicks
    /\ CanRead(Sched)
    /\ ticks' = ticks + 1
    /\ SchedAdvance({a \in Accounts : engines[a] # "None"})
    /\ UNCHANGED <<engineVars, rwWriter, stats, ctlVars, call, ret, dbVars, calls, faults>>
    /\ UNCHANGED <<cacheVars, threadVars, lockVars>>

\* ---- the calls of the &mut self methods by the owner of the manager
\* the scheduler task exists: it was spawned and not aborted
TaskRunning == pc[Sched] \notin {"none", "cancelled"}

\* what task.abort() does to the task and its locals (lines 230, 333)
AbortTask ==
    /\ rwWriter' = IF rwWriter = Sched THEN NoProc ELSE rwWriter
    /\ cyc' = [cyc EXCEPT ![Sched] = NoCycle]
    /\ pending' = {}

\* start_background_sync or stop_background_sync is called
CallLifecycle(p, op) ==
    /\ pc[p] = "idle"
    /\ Exclusive
    /\ call' = [call EXCEPT ![p] = [op |-> op, acct |-> NoAcct, engine |-> "None",
                                    type |-> "None"]]
    /\ pc' = [pc EXCEPT ![p] = op]
    /\ UNCHANGED <<engineVars, rwWriter, stats, ctlVars, ret, pending, cyc, dbVars, boundVars>>
    /\ UNCHANGED <<cacheVars, threadVars, lockVars>>

\* faulty variant of StartBackgroundSyncBody: the handle is not looked at
StartBackgroundSyncBody_NoCheck(p) ==
    /\ pc[p] = "start_background_sync"
    /\ background_task' = TRUE
    /\ pc' = [pc EXCEPT ![p] = "idle", ![Sched] = "tick"]
    /\ ret' = MkResult("Ok", 0, 0, 0)
    /\ call' = [call EXCEPT ![p] = NoCall]
    /\ UNCHANGED <<engineVars, rwWriter, stats, pending, cyc, dbVars, boundVars>>
    /\ UNCHANGED <<cacheVars, threadVars, lockVars>>

\* lines 170-225: invalid_state while a handle is held (171-173), else the
\* task is spawned and its handle kept (181, 222)
StartBackgroundSyncBody(p) ==
    /\ pc[p] = "start_background_sync"
    /\ IF background_task
       THEN /\ pc' = [pc EXCEPT ![p] = "idle"]
            /\ ret' = MkResult("InvalidState", 0, 0, 0)
            /\ UNCHANGED background_task
       ELSE /\ background_task' = TRUE
            /\ pc' = [pc EXCEPT ![p] = "idle", ![Sched] = "tick"]
            /\ ret' = MkResult("Ok", 0, 0, 0)
    /\ call' = [call EXCEPT ![p] = NoCall]
    /\ UNCHANGED <<engineVars, rwWriter, stats, pending, cyc, dbVars, boundVars>>
    /\ UNCHANGED <<cacheVars, threadVars, lockVars>>

\* faulty variant of StopBackgroundSyncBody: the handle is taken and the task
\* is left running
StopBackgroundSyncBody_NoAbort(p) ==
    /\ pc[p] = "stop_background_sync"
    /\ background_task' = FALSE
    /\ pc' = [pc EXCEPT ![p] = "idle"]
    /\ ret' = MkResult("Ok", 0, 0, 0)
    /\ call' = [call EXCEPT ![p] = NoCall]
    /\ UNCHANGED <<engineVars, rwWriter, stats, pending, cyc, dbVars, boundVars>>
    /\ UNCHANGED <<cacheVars, threadVars, lockVars>>

\* lines 228-234: a handle that is held is taken and its task aborted; Ok
\* either way
StopBackgroundSyncBody(p) ==
    /\ pc[p] = "stop_background_sync"
    /\ IF background_task
       THEN /\ background_task' = FALSE
            /\ pc' = [pc EXCEPT ![p] = "idle", ![Sched] = "cancelled"]
            /\ AbortTask
       ELSE /\ pc' = [pc EXCEPT ![p] = "idle"]
            /\ UNCHANGED <<background_task, rwWriter, cyc, pending>>
    /\ ret' = MkResult("Ok", 0, 0, 0)
    /\ call' = [call EXCEPT ![p] = NoCall]
    /\ UNCHANGED <<engineVars, stats, dbVars, boundVars>>
    /\ UNCHANGED <<cacheVars, threadVars, lockVars>>

\* faulty variant of DropManager: the task outlives the manager
DropManager_NoAbort ==
    /\ Exclusive
    /\ pc' = [p \in Procs |-> IF p = Sched THEN pc[p] ELSE "dropped"]
    /\ UNCHANGED <<engineVars, rwWriter, stats, ctlVars, call, ret, pending, cyc, dbVars,
                   boundVars>>
    /\ UNCHANGED <<cacheVars, threadVars, lockVars>>

\* lines 330-336: the manager is dropped (no call borrows it): a handle that
\* is held is taken and its task aborted; no method can be called any more
DropManager ==
    /\ Exclusive
    /\ background_task' = FALSE
    /\ pc' = [p \in Procs |-> IF p # Sched THEN "dropped"
                               ELSE IF background_task THEN "cancelled" ELSE pc[p]]
    /\ IF background_task THEN AbortTask ELSE UNCHANGED <<rwWriter, cyc, pending>>
    /\ UNCHANGED <<engineVars, stats, call, ret, dbVars, boundVars>>
    /\ UNCHANGED <<cacheVars, threadVars, lockVars>>

\* ================================================================ cache
\* storage/cache.rs: struct Cache over a directory of the file system
CacheClients == {"w1", "w2"}
Keys == {"k1", "temp:k2", "message:m1", "attachment:a1"}
Blobs == {"x", "yy"}
NoKey == "none"
NoBlob == "none"
NoTime == -1

\* data.len()
Size(b) == IF b = "x" THEN 1 ELSE 2

\* Cache::calculate_hash: hex SHA-256, taken to be free of collisions
calculate_hash(b) == <<"sha256", b>>

\* Cache::get_file_path: the directory is chosen by the prefix of the key, the
\* file name is the hash of the key; message and attachment files go into a
\* subdirectory named after the first two digits of the hash
get_file_path(k) ==
    CASE k = "message:m1"    -> [dir |-> <<"messages", "subdir">>, name |-> calculate_hash(k)]
      [] k = "attachment:a1" -> [dir |-> <<"attachments", "subdir">>, name |-> calculate_hash(k)]
      [] k = "temp:k2"       -> [dir |-> <<"temp">>, name |-> calculate_hash(k)]
      [] OTHER               -> [dir |-> <<>>, name |-> calculate_hash(k)]

Paths == {get_file_path(k) : k \in Keys}

\* Cache::new lines 64-69: create_dir_all of the cache directory and of
\* messages, attachments and temp; no other directory is ever created
DirExists(d) == d \in {<<>>, <<"messages">>, <<"attachments">>, <<"temp">>}

Inodes == 1..Cardinality(Paths)
NoEntry == [present |-> FALSE]

\* struct CacheEntry (file_path is get_file_path(key))
MkEntry(k, b, at, ttl) ==
    [present |-> TRUE, file_path |-> get_file_path(k), size |-> Size(b),
     accessed_at |-> at, expires_at |-> IF ttl = NoTime THEN NoTime ELSE at + ttl,
     content_hash |-> calculate_hash(b)]

Present(k) == entries[k].present
PresentKeys == {k \in Keys : Present(k)}

\* ---- the file system
FileExists(path) == fsLink[path] # 0
\* std::fs::read
FileBytes(path) == IF FileExists(path) THEN fsData[fsLink[path]] ELSE NoBlob
FreeInode == CHOOSE i \in Inodes : (\A q \in Paths : fsLink[q] # i) /\
                 (\A j \in Inodes : (\A q \in Paths : fsLink[q] # j) => i <= j)

\* std::fs::write(path, data): the file is created, or the existing file is
\* truncated and written in place (every hard link of it shows the new bytes);
\* NotFound when the directory does not exist
FsWriteResult(path) == IF DirExists(path.dir) THEN "Ok" ELSE "NotFound"
FsWriteLink(path) ==
    IF FileExists(path) THEN fsLink ELSE [fsLink EXCEPT ![path] = FreeInode]
FsWriteData(path, b) ==
    IF FileExists(path) THEN [fsData EXCEPT ![fsLink[path]] = b]
    ELSE [fsData EXCEPT ![FreeInode] = b]

\* std::fs::hard_link(src, dst): NotFound without src or without the directory
\* of dst, AlreadyExists when dst exists; otherwise dst names the file of src
FsLinkResult(src, dst) ==
    IF ~FileExists(src) \/ ~DirExists(dst.dir) THEN "NotFound"
    ELSE IF FileExists(dst) THEN "AlreadyExists"
    ELSE "Ok"
FsHardLink(src, dst) == [fsLink EXCEPT ![dst] = fsLink[src]]

\* faulty variant of FsRemove: the removal takes the file away under all its
\* names
FsRemove_AllLinks(links, paths) ==
    [q \in Paths |-> IF \E r \in paths : links[r] # 0 /\ links[r] = links[q]
                     THEN 0 ELSE links[q]]

\* Cache::remove_entry for each of paths: remove_file when the path exists;
\* the other names of the file stay
FsRemove(links, paths) == [q \in Paths |-> IF q \in paths THEN 0 ELSE links[q]]

\* ---- helpers of Cache
\* faulty variant of Expired: the entry is gone at its expiry time already
Expired_AtExpiry(e) == e.expires_at # NoTime /\ now >= e.expires_at

\* line 171: OffsetDateTime::now_utc() > expires_at
Expired(e) == e.expires_at # NoTime /\ now > e.expires_at

RECURSIVE SumSizes(_, _)
SumSizes(ents, ks) ==
    IF ks = {} THEN 0
    ELSE LET k == CHOOSE x \in ks : TRUE IN ents[k].size + SumSizes(ents, ks \ {k})

\* line 266: entries.values().map(|e| e.size).sum()
TotalSize(ents) == SumSizes(ents, {k \in Keys : ents[k].present})

\* Cache::find_by_hash: the first entry of the iteration over the map that
\* carries the hash (any of them: the order of a HashMap is arbitrary)
find_by_hash(h) ==
    IF \E k \in PresentKeys : entries[k].content_hash = h
    THEN {k \in PresentKeys : entries[k].content_hash = h}
    ELSE {NoKey}

\* faulty variant of Survivors: the loop takes the entries in any order
RECURSIVE Survivors_AnyOrder(_, _)
Survivors_AnyOrder(ks, total) ==
    IF total <= MaxSize \/ ks = {} THEN {ks}
    ELSE UNION {Survivors_AnyOrder(ks \ {k}, total - entries[k].size) : k \in ks}

\* lines 273-285: the sets of keys that the loop over the entries sorted by
\* accessed_at can leave, from the keys ks with total size total (entries with
\* equal accessed_at come in the arbitrary order of the map)
RECURSIVE Survivors(_, _)
Survivors(ks, total) ==
    IF total <= MaxSize \/ ks = {} THEN {ks}
    ELSE UNION {Survivors(ks \ {k}, total - entries[k].size) :
                  k \in {x \in ks : \A y \in ks : entries[x].accessed_at <= entries[y].accessed_at}}

NoLocals == [op |-> "none", key |-> NoKey, data |-> NoBlob, ttl |-> NoTime,
             found |-> NoKey, at |-> NoTime]
NoCacheRet == [op |-> "none", key |-> NoKey, res |-> "None", data |-> NoBlob]
MkCacheRet(op, k, r, b) == [op |-> op, key |-> k, res |-> r, data |-> b]

\* Cache::new on an empty directory (load_cache_entries loads nothing)
CacheInit ==
    /\ entries = [k \in Keys |-> NoEntry]
    /\ fsLink = [q \in Paths |-> 0]
    /\ fsData = [i \in Inodes |-> NoBlob]
    /\ cstats = [hits |-> 0, misses |-> 0]
    /\ now = 0
    /\ cpc = [c \in CacheClients |-> "idle"]
    /\ cloc = [c \in CacheClients |-> NoLocals]
    /\ cret = NoCacheRet
    /\ cops = 0

\* ---- methods of Cache
CanCallCache(c) ==
    /\ cpc[c] = "idle"
    /\ cops < MaxCacheOps
    /\ c = "w2" => cpc["w1"] # "idle"

CacheReturn(c, r) ==
    /\ cpc' = [cpc EXCEPT ![c] = "idle"]
    /\ cloc' = [cloc EXCEPT ![c] = NoLocals]
    /\ cret' = r

\* Cache::store(key, data, content_type, ttl) is called (also through
\* store_message, store_attachment, store_temp); line 114 hashes the data
CallStore(c, k, b, ttl) ==
    /\ CanCallCache(c)
    /\ cops' = cops + 1
    /\ cpc' = [cpc EXCEPT ![c] = "find"]
    /\ cloc' = [cloc EXCEPT ![c] = [NoLocals EXCEPT !.op = "store", !.key = k,
                                                    !.data = b, !.ttl = ttl]]
    /\ UNCHANGED <<entries, fsLink, fsData, cstats, now, cret, syncVars, threadVars, lockVars>>

\* line 117: find_by_hash(&content_hash) under the read guard of entries
StoreFind(c) ==
    /\ cpc[c] = "find"
    /\ \E f \in find_by_hash(calculate_hash(cloc[c].data)) :
         cloc' = [cloc EXCEPT ![c].found = f]
    /\ cpc' = [cpc EXCEPT ![c] = "fs"]
    /\ UNCHANGED <<entries, fsLink, fsData, cstats, now, cret, cops, syncVars, threadVars, lockVars>>

\* lines 119-132 (content known): hard_link(existing file, new_path)?, or
\* lines 139-151 (new content): fs::write(file_path, data)?; then the entry is
\* built with the time of now
StoreFile(c) ==
    /\ cpc[c] = "fs"
    /\ LET k == cloc[c].key
           path == get_file_path(k)
           src == get_file_path(cloc[c].found)
           r == IF cloc[c].found # NoKey THEN FsLinkResult(src, path)
                ELSE FsWriteResult(path)
       IN IF r # "Ok"
          THEN /\ CacheReturn(c, MkCacheRet("store", k, r, NoBlob))
               /\ UNCHANGED <<fsLink, fsData>>
          ELSE /\ IF cloc[c].found # NoKey
                  THEN fsLink' = FsHardLink(src, path) /\ UNCHANGED fsData
                  ELSE /\ fsLink' = FsWriteLink(path)
                       /\ fsData' = FsWriteData(path, cloc[c].data)
               /\ cpc' = [cpc EXCEPT ![c] = "insert"]
               /\ cloc' = [cloc EXCEPT ![c].at = now]
               /\ UNCHANGED cret
    /\ UNCHANGED <<entries, cstats, now, cops, syncVars, threadVars, lockVars>>

\* line 134 and return Ok (content known), or lines 153-156: insert of the
\* entry under the write guard and update_stats_hit (new content)
StoreInsert(c) ==
    /\ cpc[c] = "insert"
    /\ LET k == cloc[c].key IN
       /\ entries' = [entries EXCEPT ![k] = MkEntry(k, cloc[c].data, cloc[c].at, cloc[c].ttl)]
       /\ IF cloc[c].found # NoKey
          THEN /\ CacheReturn(c, MkCacheRet("store", k, "Ok", NoBlob))
               /\ UNCHANGED cstats
          ELSE /\ cstats' = [cstats EXCEPT !.hits = @ + 1]
               /\ cpc' = [cpc EXCEPT ![c] = "enforce"]
               /\ UNCHANGED <<cloc, cret>>
    /\ UNCHANGED <<fsLink, fsData, now, cops, syncVars, threadVars, lockVars>>

\* Cache::enforce_size_limit is called on its own (initialize does so too)
CallEnforceSizeLimit(c) ==
    /\ CanCallCache(c)
    /\ cops' = cops + 1
    /\ cpc' = [cpc EXCEPT ![c] = "enforce"]
    /\ cloc' = [cloc EXCEPT ![c] = [NoLocals EXCEPT !.op = "enforce_size_limit"]]
    /\ UNCHANGED <<entries, fsLink, fsData, cstats, now, cret, syncVars, threadVars, lockVars>>

\* lines 264-288 under the write guard of entries (line 159 when called by
\* store, which then returns Ok)
EnforceSizeLimit(c) ==
    /\ cpc[c] = "enforce"
    /\ \E keep \in Survivors(PresentKeys, TotalSize(entries)) :
         /\ entries' = [k \in Keys |-> IF k \in keep THEN entries[k] ELSE NoEntry]
         /\ fsLink' = FsRemove(fsLink, {entries[k].file_path : k \in PresentKeys \ keep})
    /\ CacheReturn(c, MkCacheRet(cloc[c].op, cloc[c].key, "Ok", NoBlob))
    /\ UNCHANGED <<fsData, cstats, now, cops, syncVars, threadVars, lockVars>>

\* Cache::retrieve(key), lines 165-200, all under the write guard of entries
Retrieve(c, k) ==
    /\ CanCallCache(c)
    /\ cops' = cops + 1
    /\ IF ~Present(k)
       THEN /\ cstats' = [cstats EXCEPT !.misses = @ + 1]
            /\ cret' = MkCacheRet("retrieve", k, "None", NoBlob)
            /\ UNCHANGED <<entries, fsLink>>
       ELSE IF Expired(entries[k])
       THEN /\ fsLink' = FsRemove(fsLink, {entries[k].file_path})
            /\ entries' = [entries EXCEPT ![k] = NoEntry]
            /\ cstats' = [cstats EXCEPT !.misses = @ + 1]
            /\ cret' = MkCacheRet("retrieve", k, "None", NoBlob)
       ELSE IF FileExists(entries[k].file_path)
       THEN /\ entries' = [entries EXCEPT ![k].accessed_at = now]
            /\ cstats' = [cstats EXCEPT !.hits = @ + 1]
            /\ cret' = MkCacheRet("retrieve", k, "Some", FileBytes(entries[k].file_path))
            /\ UNCHANGED fsLink
       ELSE /\ entries' = [entries EXCEPT ![k] = NoEntry]
            /\ cstats' = [cstats EXCEPT !.misses = @ + 1]
            /\ cret' = MkCacheRet("retrieve", k, "None", NoBlob)
            /\ UNCHANGED fsLink
    /\ UNCHANGED <<fsData, now, cpc, cloc, syncVars, threadVars, lockVars>>

\* Cache::remove(key), lines 203-212, under the write guard of entries
Remove(c, k) ==
    /\ CanCallCache(c)
    /\ cops' = cops + 1
    /\ IF Present(k)
       THEN /\ entries' = [entries EXCEPT ![k] = NoEntry]
            /\ fsLink' = FsRemove(fsLink, {entries[k].file_path})
            /\ cret' = MkCacheRet("remove", k, "true", NoBlob)
       ELSE /\ cret' = MkCacheRet("remove", k, "false", NoBlob)
            /\ UNCHANGED <<entries, fsLink>>
    /\ UNCHANGED <<fsData, cstats, now, cpc, cloc, syncVars, threadVars, lockVars>>

\* Cache::cleanup_expired, lines 241-261, under the write guard of entries
CleanupExpired(c) ==
    /\ CanCallCache(c)
    /\ cops' = cops + 1
    /\ LET gone == {k \in PresentKeys : Expired(entries[k])} IN
       /\ entries' = [k \in Keys |-> IF k \in gone THEN NoEntry ELSE entries[k]]
       /\ fsLink' = FsRemove(fsLink, {entries[k].file_path : k \in gone})
    /\ cret' = MkCacheRet("cleanup_expired", NoKey, "Ok", NoBlob)
    /\ UNCHANGED <<fsData, cstats, now, cpc, cloc, syncVars, threadVars, lockVars>>

\* the clock moves on
ClockTick ==
    /\ now < MaxTime
    /\ now' = now + 1
    /\ UNCHANGED <<entries, fsLink, fsData, cstats, cpc, cloc, cret, cops, syncVars, threadVars, lockVars>>

\* ------------------------------------------------- subjects (threading.rs)
\* a string is the sequence of its characters
UpperCase == <<"A", "B", "C", "D", "E", "F", "G", "H", "I", "J", "K", "L", "M",
               "N", "O", "P", "Q", "R", "S", "T", "U", "V", "W", "X", "Y", "Z">>
LowerCase == <<"a", "b", "c", "d", "e", "f", "g", "h", "i", "j", "k", "l", "m",
               "n", "o", "p", "q", "r", "s", "t", "u", "v", "w", "x", "y", "z">>

\* char::to_lowercase
ToLower(ch) ==
    IF \E i \in 1..Len(UpperCase) : UpperCase[i] = ch
    THEN LowerCase[CHOOSE i \in 1..Len(UpperCase) : UpperCase[i] = ch]
    ELSE ch

\* \s of the regular expressions, char::is_whitespace
IsSpace(ch) == ch = " "

\* the first position from i on that holds no white space (Len(s) + 1 if none)
SkipSpaces(s, i) ==
    CHOOSE j \in i..(Len(s) + 1) :
        /\ j = Len(s) + 1 \/ ~IsSpace(s[j])
        /\ \A k \in i..(j - 1) : IsSpace(s[k])

\* str::trim
Trim(s) ==
    LET last == CHOOSE j \in 0..Len(s) :
                    /\ j = 0 \/ ~IsSpace(s[j])
                    /\ \A k \in (j + 1)..Len(s) : IsSpace(s[k])
    IN SubSeq(s, SkipSpaces(s, 1), last)

\* s without its first n characters
Drop(s, n) == SubSeq(s, n + 1, Len(s))

\* faulty variant of StripListTag: the tag stays
StripListTag_Keep(s) == s

\* re_list.replace(&s, ""): ^\s*\[[^\]]+\]\s* is cut off the front
StripListTag(s) ==
    LET i == SkipSpaces(s, 1)
        closing == {j \in (i + 1)..Len(s) : s[j] = "]"}
    IN IF i <= Len(s) /\ s[i] = "[" /\ closing # {}
       THEN LET j == CHOOSE x \in closing : \A y \in closing : x <= y
            IN IF j >= i + 2 THEN Drop(s, SkipSpaces(s, j + 1) - 1) ELSE s
       ELSE s

\* the alternatives of (?i:re|fw|fwd|sv|aw|antw|rv)
ReplyTokens == {<<"r", "e">>, <<"f", "w">>, <<"f", "w", "d">>, <<"s", "v">>,
                <<"a", "w">>, <<"a", "n", "t", "w">>, <<"r", "v">>}

\* the positions after one match of (?i:re|...)\s*:\s* at position i
AfterToken(s, i) ==
    {SkipSpaces(s, SkipSpaces(s, i + Len(t)) + 1) : t \in
        {t \in ReplyTokens :
            /\ i + Len(t) - 1 <= Len(s)
            /\ \A k \in 1..Len(t) : ToLower(s[i + k - 1]) = t[k]
            /\ SkipSpaces(s, i + Len(t)) <= Len(s)
            /\ s[SkipSpaces(s, i + Len(t))] = ":"}}

\* faulty variant of AfterTokens: one token only is matched
AfterTokens_One(s, i) ==
    IF AfterToken(s, i) = {} THEN i ELSE CHOOSE n \in AfterToken(s, i) : TRUE

\* the position after the longest match of ((?i:re|...)\s*:\s*)+ at position i
\* (i itself when there is no match)
RECURSIVE AfterTokens(_, _)
AfterTokens(s, i) ==
    IF AfterToken(s, i) = {} THEN i
    ELSE AfterTokens(s, CHOOSE n \in AfterToken(s, i) : TRUE)

\* s.split_whitespace().collect::<Vec<_>>().join(" ").to_lowercase(), for a
\* trimmed t from position i on
RECURSIVE CollapseFrom(_, _)
CollapseFrom(t, i) ==
    IF i > Len(t) THEN <<>>
    ELSE (IF IsSpace(t[i])
          THEN (IF i > 1 /\ IsSpace(t[i - 1]) THEN <<>> ELSE <<" ">>)
          ELSE <<ToLower(t[i])>>) \o CollapseFrom(t, i + 1)

\* threading::normalize_subject
normalize_subject(str) ==
    LET s0 == Trim(str)
        s1 == StripListTag(s0)
        s2 == Drop(s1, AfterTokens(s1, 1) - 1)
    IN CollapseFrom(Trim(s2), 1)

\* threading::canonical_subject
canonical_subject(s) == normalize_subject(s)

\* str::starts_with
StartsWith(s, prefix) ==
    Len(s) >= Len(prefix) /\ SubSeq(s, 1, Len(prefix)) = prefix

\* ------------------------------------------------ threading (threading.rs)
NoId == "None"
NoMsg == [uid |-> 0]

\* struct MsgMeta (folder, from and body_preview take no part in threading)
MkMsg(date, subject, att, read, out, mid, irt, refs, tid) ==
    [uid |-> 0, date |-> date, subject |-> subject, has_attachments |-> att,
     is_read |-> read, is_outgoing |-> out, message_id |-> mid,
     in_reply_to |-> irt, references |-> refs, server_thread_id |-> tid]

\* the elements of a sequence, and the sequence xs ordered by the keys ks
\* (Vec::sort_by_key: stable, ascending)
Range(xs) == {xs[i] : i \in 1..Len(xs)}
InsertLast(acc, x) ==
    LET n == Cardinality({j \in 1..Len(acc) : acc[j].k <= x.k})
    IN SubSeq(acc, 1, n) \o <<x>> \o SubSeq(acc, n + 1, Len(acc))
RECURSIVE SortFrom(_, _, _)
SortFrom(ps, i, acc) ==
    IF i > Len(ps) THEN acc ELSE SortFrom(ps, i + 1, InsertLast(acc, ps[i]))
sort_by_key(xs, ks) ==
    LET sorted == SortFrom([i \in 1..Len(xs) |-> [k |-> ks[i], v |-> xs[i]]], 1, <<>>)
    IN [i \in 1..Len(xs) |-> sorted[i].v]
Dates(ms) == [i \in 1..Len(ms) |-> ms[i].date]
Reverse(xs) == [i \in 1..Len(xs) |-> xs[Len(xs) + 1 - i]]

\* ---- jwz_threads
\* pass 1 (lines 77-85): a node for every Message-ID and every reference; the
\* node of a Message-ID holds the last message that carries it
Last(xs) == xs[Len(xs)]
NodeIds(messages) ==
    {m.message_id : m \in {x \in Range(messages) : x.message_id # NoId}}
      \cup UNION {Range(m.references) : m \in Range(messages)}
NodeMsg(messages, id) ==
    LET at == {i \in 1..Len(messages) : messages[i].message_id = id}
    IN IF at = {} THEN NoMsg
       ELSE messages[CHOOSE i \in at : \A j \in at : j <= i]
CreateNodes(messages) ==
    [id \in NodeIds(messages) |->
        [mid |-> id, msg |-> NodeMsg(messages, id), parent |-> NoId, children |-> <<>>]]

\* line 90: m.references.last().cloned().or_else(|| m.in_reply_to.clone())
ParentId(m) == IF m.references # <<>> THEN Last(m.references) ELSE m.in_reply_to

\* pass 2 (lines 88-98) from message i on
RECURSIVE LinkFrom(_, _, _)
LinkFrom(messages, i, nodes) ==
    IF i > Len(messages) THEN nodes
    ELSE LET m == messages[i]
             pid == ParentId(m)
         IN IF m.message_id # NoId /\ pid # NoId /\ pid \in DOMAIN nodes
            THEN LET linked == [nodes EXCEPT ![m.message_id].parent = pid]
                 IN LinkFrom(messages, i + 1,
                             [linked EXCEPT ![pid].children = Append(@, m.message_id)])
            ELSE LinkFrom(messages, i + 1, nodes)

\* collect_inorder (lines 129-141); the recursion never ends when it comes
\* back to a node it is working on (path): the stack overflows
Overflow == [ok |-> FALSE, acc |-> <<>>]
RECURSIVE collect_inorder(_, _, _)
RECURSIVE CollectChildren(_, _, _, _)
collect_inorder(nodes, id, path) ==
    IF id \in path THEN Overflow
    ELSE LET n == nodes[id]
             childs == sort_by_key(n.children,
                                   [i \in 1..Len(n.children) |-> nodes[n.children[i]].msg.date])
             below == CollectChildren(nodes, childs, 1, path \cup {id})
         IN IF below.ok
            THEN [ok |-> TRUE,
                  acc |-> (IF n.msg # NoMsg THEN <<n.msg>> ELSE <<>>) \o below.acc]
            ELSE Overflow
CollectChildren(nodes, childs, i, path) ==
    IF i > Len(childs) THEN [ok |-> TRUE, acc |-> <<>>]
    ELSE LET first == collect_inorder(nodes, childs[i], path)
         IN IF ~first.ok THEN Overflow
            ELSE LET rest == CollectChildren(nodes, childs, i + 1, path)
                 IN IF rest.ok THEN [ok |-> TRUE, acc |-> first.acc \o rest.acc]
                    ELSE Overflow

\* faulty variant of Roots: every node with a message starts a thread
Roots_EveryMessage(nodes) == {id \in DOMAIN nodes : nodes[id].msg # NoMsg}

\* lines 101-103: nodes with no parent and with a real message
Roots(nodes) == {id \in DOMAIN nodes : nodes[id].parent = NoId /\ nodes[id].msg # NoMsg}

\* jwz_threads: the map of thread id -> messages, or the overflow of the stack
jwz_threads(messages) ==
    LET nodes == LinkFrom(messages, 1, CreateNodes(messages))
        roots == Roots(nodes)
        col == [r \in roots |-> collect_inorder(nodes, r, {})]
        seen == {m.message_id : m \in UNION {Range(col[r].acc) : r \in roots}}
        orphans == {id \in DOMAIN nodes : nodes[id].msg # NoMsg /\ id \notin seen}
    IN IF \E r \in roots : ~col[r].ok THEN [ok |-> FALSE, out |-> <<>>]
       ELSE [ok |-> TRUE,
             out |-> [tid \in roots \cup orphans |->
                        IF tid \in roots THEN col[tid].acc ELSE <<nodes[tid].msg>>]]

\* ---- group_into_threads
\* types.rs line 73: m.in_reply_to.is_some() || m.subject.starts_with("Re:")
IsReply(m) == m.in_reply_to # NoId \/ StartsWith(m.subject, <<"R", "e", ":">>)

\* faulty variant of NewThread: the last date is the date of the first message
NewThread_FirstDate(id, subject, messages) ==
    [id |-> id, subject |-> subject, messages |-> messages,
     last_date |-> IF messages = <<>> THEN 0 ELSE messages[1].date,
     any_unread |-> \E m \in Range(messages) : ~m.is_read,
     last_is_outgoing_reply |->
         messages # <<>> /\ Last(messages).is_outgoing /\ IsReply(Last(messages)),
     has_attachments |-> \E m \in Range(messages) : m.has_attachments]

\* Thread::new (types.rs lines 68-85)
NewThread(id, subject, messages) ==
    [id |-> id, subject |-> subject, messages |-> messages,
     last_date |-> IF messages = <<>> THEN 0 ELSE Last(messages).date,
     any_unread |-> \E m \in Range(messages) : ~m.is_read,
     last_is_outgoing_reply |->
         messages # <<>> /\ Last(messages).is_outgoing /\ IsReply(Last(messages)),
     has_attachments |-> \E m \in Range(messages) : m.has_attachments]

\* lines 34-44: the thread of one bucket
BucketThread(tid, bucket) ==
    LET v == sort_by_key(bucket, Dates(bucket))
    IN NewThread(tid, canonical_subject(IF v = <<>> THEN <<>> ELSE Last(v).subject), v)

\* faulty variant of HasServerThreadId: no message counts as having one
HasServerThreadId_Never(m) == FALSE

\* line 19: m.server_thread_id.is_some()
HasServerThreadId(m) == m.server_thread_id # NoId

\* lines 22-25: the keys of buckets after the loop over with_tid
ServerThreadIds(ms) ==
    {m.server_thread_id : m \in {x \in Range(ms) : HasServerThreadId(x)}}

\* lines 15-31: the buckets, or the overflow of the stack in jwz_threads
Buckets(ms) ==
    LET sorted == sort_by_key(ms, Dates(ms))
        with_tid == SelectSeq(sorted, HasServerThreadId)
        without_tid == SelectSeq(sorted, LAMBDA m : ~HasServerThreadId(m))
        jwz == jwz_threads(without_tid)
        tids == ServerThreadIds(ms)
    IN IF ~jwz.ok THEN [ok |-> FALSE, map |-> <<>>]
       ELSE [ok |-> TRUE,
             map |-> [tid \in tids \cup DOMAIN jwz.out |->
                        (IF tid \in tids
                         THEN SelectSeq(with_tid, LAMBDA m : m.server_thread_id = tid)
                         ELSE <<>>)
                        \o (IF tid \in DOMAIN jwz.out THEN jwz.out[tid] ELSE <<>>)]]

\* the orders in which buckets.into_iter() can yield the keys ks of the map
IterationOrders(ks) ==
    {ord \in [1..Cardinality(ks) -> ks] : \A i, j \in 1..Cardinality(ks) : ord[i] = ord[j] => i = j}

\* faulty variant of SortThreads: the list is not reversed
SortThreads_Ascending(ts) ==
    sort_by_key(ts, [i \in 1..Len(ts) |-> ts[i].last_date])

\* lines 47-48: threads.sort_by_key(|t| t.last_date); threads.reverse()
SortThreads(ts) ==
    Reverse(sort_by_key(ts, [i \in 1..Len(ts) |-> ts[i].last_date]))

\* group_into_threads when the map yields its buckets in the order ord
Grouped(map, ord) ==
    SortThreads([i \in 1..Len(ord) |-> BucketThread(ord[i], map[ord[i]])])

NoThreads == [res |-> "None", list |-> <<>>]

\* ---- the calls of group_into_threads and normalize_subject
AllDates == 1..MaxDate
EarlyDates == 1..(MaxDate - 1)
BoolSet == {TRUE, FALSE}
SubjectX == <<"x">>
SubjectY == <<"y">>
SubjectReX == <<"R", "e", ":", " ", "x">>

\* the threading headers of a message: none, In-Reply-To a message that may
\* be there ("a") or that is not ("z"), References that end in one that is
\* not, References of the third message of a chain
Links == {[irt |-> NoId, refs |-> <<>>],
          [irt |-> "a", refs |-> <<>>],
          [irt |-> "z", refs |-> <<>>],
          [irt |-> NoId, refs |-> <<"z">>],
          [irt |-> "b", refs |-> <<"a", "b">>]}
MessageIds == {"a", "b", "c"}

\* messages that differ in date, Message-ID, headers and server thread id
\* (the server thread id "a" is also a Message-ID)
StructureShapes ==
    {MkMsg(d, SubjectX, FALSE, TRUE, FALSE, mid, l.irt, l.refs, NoId) :
        d \in EarlyDates, mid \in MessageIds, l \in Links}
    \cup {MkMsg(d, SubjectX, FALSE, TRUE, FALSE, NoId, irt, <<>>, NoId) :
        d \in EarlyDates, irt \in {NoId, "z"}}
    \cup {MkMsg(d, SubjectX, FALSE, TRUE, FALSE, "b", "a", <<>>, "t") : d \in EarlyDates}
    \cup {MkMsg(d, SubjectX, FALSE, TRUE, FALSE, "c", NoId, <<>>, "a") : d \in EarlyDates}

\* the messages of a reply chain: A, B in reply to A, C with the References
\* A and B, each at any date
ChainA(d) == MkMsg(d, SubjectX, FALSE, TRUE, FALSE, "a", NoId, <<>>, NoId)
ChainB(d) == MkMsg(d, SubjectReX, FALSE, TRUE, FALSE, "b", "a", <<>>, NoId)
ChainC(d) == MkMsg(d, SubjectReX, FALSE, TRUE, FALSE, "c", "b", <<"a", "b">>, NoId)
ChainShapes == {ChainA(d) : d \in AllDates} \cup {ChainB(d) : d \in AllDates}
                 \cup {ChainC(d) : d \in AllDates}

\* messages of the server thread "t" that differ in date, subject, flags and
\* reply headers
SummaryShapes ==
    {MkMsg(d, subj, att, read, out, l.mid, l.irt, l.refs, l.tid) :
        d \in EarlyDates, subj \in {SubjectY, SubjectReX}, att \in BoolSet,
        read \in BoolSet, out \in BoolSet,
        l \in {[mid |-> "a", irt |-> NoId, refs |-> <<>>, tid |-> "t"],
               [mid |-> "b", irt |-> "z", refs |-> <<>>, tid |-> "t"],
               [mid |-> "c", irt |-> NoId, refs |-> <<"z">>, tid |-> "t"]}}

\* the message lists: message i of a list has the uid i
WithUids(shapes) == [i \in 1..Len(shapes) |-> [shapes[i] EXCEPT !.uid = i]]

\* threading::group_into_threads(msgs) for a list msgs of up to max messages
\* of the given shapes
GroupIntoThreads(shapes, max) ==
    /\ threads.res = "None"
    /\ \E n \in 0..max : \E f \in [1..n -> shapes] :
          LET ms == WithUids(f)
              b == Buckets(ms)
          IN /\ input_msgs' = ms
             /\ IF ~b.ok THEN threads' = [res |-> "StackOverflow", list |-> <<>>]
                ELSE \E ord \in IterationOrders(DOMAIN b.map) :
                        threads' = [res |-> "Ok", list |-> Grouped(b.map, ord)]
    /\ UNCHANGED <<raw, normalized, syncVars, cacheVars, lockVars>>

\* the subjects: the examples of the tests and every string of up to
\* MaxSubjectLen characters of SubjectChars
SubjectChars == {"r", "R", "e", ":", " ", "[", "]", "x"}
Example1 == <<"R", "e", ":", " ", "R", "e", ":", " ", "O", "r", "i", "g", "i", "n", "a", "l",
              " ", "S", "u", "b", "j", "e", "c", "t">>
Example2 == <<"[", "L", "i", "s", "t", "]", " ", "F", "w", "d", ":", " ",
              "I", "m", "p", "o", "r", "t", "a", "n", "t">>
Example3 == <<"[", "L", "i", "s", "t", "]", " ", "R", "e", ":", " ", "F", "w", "d", ":", " ",
              "I", "m", "p", "o", "r", "t", "a", "n", "t">>
Example4 == <<" ", " ", "R", "e", ":", " ", " ", " ", "M", "u", "l", "t", "i", "p", "l", "e",
              " ", " ", " ", "S", "p", "a", "c", "e", "s", " ", " ">>
Example5 == <<"R", "e", ":", " ", "[", "L", "i", "s", "t", "]", " ", "R", "e", ":", " ", "x">>
Examples == {Example1, Example2, Example3, Example4, Example5}

NoString == <<"None">>

\* threading::normalize_subject(raw) for a subject of the set subjects
NormalizeSubject(subjects) ==
    /\ raw = NoString
    /\ \E str \in subjects :
          /\ raw' = str
          /\ normalized' = normalize_subject(str)
    /\ UNCHANGED <<input_msgs, threads, syncVars, cacheVars, lockVars>>

\* nothing was called yet
ThreadInit ==
    /\ input_msgs = <<>>
    /\ threads = NoThreads
    /\ raw = NoString
    /\ normalized = NoString

\* ------------------------------------- the guards of the manager's methods
\* sync_engines and stats are RwLocks, storage and search_index are Mutexes
\* (sync_manager.rs lines 22-28)
Acquire(lock, mode) == [k |-> "acq", lock |-> lock, mode |-> mode]
Release(lock) == [k |-> "rel", lock |-> lock, mode |-> "none"]

\* sync_account_engine: the block that stores the mailboxes (lines 277-282) and
\* the block that stores the messages of a mailbox (lines 289-309)
CyclePlan ==
    <<Acquire("storage", "w"), Release("storage"),
      Acquire("storage", "w"), Acquire("search_index", "w"),
      Release("search_index"), Release("storage")>>

\* faulty variant of AddAccountPlan: the storage guard is kept while the
\* method waits for the write guard of sync_engines
AddAccountPlan_HoldsStorage ==
    <<Acquire("storage", "w"), Acquire("sync_engines", "w"),
      Release("sync_engines"), Release("storage")>>

\* add_account: the two blocks of lines 132-135 and 138-141
AddAccountPlan ==
    <<Acquire("storage", "w"), Release("storage"),
      Acquire("sync_engines", "w"), Release("sync_engines")>>

\* the guards a method takes and drops, in the order of its code
LockPlan(op) ==
    CASE op = "add_account" -> AddAccountPlan
      [] op = "remove_account" ->         \* lines 150-163
            <<Acquire("sync_engines", "w"), Release("sync_engines"),
              Acquire("storage", "w"), Release("storage")>>
      [] op = "sync_account" ->           \* lines 238-242
            <<Acquire("sync_engines", "w")>> \o CyclePlan \o <<Release("sync_engines")>>
      [] op = "get_all_status" ->         \* lines 252-255
            <<Acquire("sync_engines", "r"), Release("sync_engines")>>
      [] op = "get_stats" ->              \* line 247
            <<Acquire("stats", "r"), Release("stats")>>
      [] op = "tick" ->                   \* lines 188-217, one account
            <<Acquire("sync_engines", "r"), Release("sync_engines"),
              Acquire("sync_engines", "w")>> \o CyclePlan \o
            <<Release("sync_engines"), Acquire("stats", "w"), Release("stats")>>

CallerOps == {"add_account", "remove_account", "sync_account", "get_all_status", "get_stats"}
NotRunning == [op |-> "none", at |-> 0]

\* tokio Mutex::lock and RwLock::write are granted when no guard of the lock
\* is held, RwLock::read when no write guard is held
Available(lock, mode) ==
    \A q \in Procs : \A g \in held[q] :
        g.lock = lock => (mode = "r" /\ g.mode = "r")

\* the next guard operation of task p
NextLockStep(p) == LockPlan(lockAt[p].op)[lockAt[p].at]

\* a method is called (the scheduler's interval fires)
LockCall(p, op) ==
    /\ lockAt[p] = NotRunning
    /\ lockAt' = [lockAt EXCEPT ![p] = [op |-> op, at |-> 1]]
    /\ UNCHANGED <<held, syncVars, cacheVars, threadVars>>

\* task p takes or drops its next guard; after the last one the method returns
LockStep(p) ==
    /\ lockAt[p] # NotRunning
    /\ LET st == NextLockStep(p)
       IN IF st.k = "acq"
          THEN /\ Available(st.lock, st.mode)
               /\ held' = [held EXCEPT ![p] = @ \cup {[lock |-> st.lock, mode |-> st.mode]}]
          ELSE held' = [held EXCEPT ![p] = {g \in @ : g.lock # st.lock}]
    /\ lockAt' = [lockAt EXCEPT ![p] =
                    IF @.at = Len(LockPlan(@.op)) THEN NotRunning
                    ELSE [@ EXCEPT !.at = @ + 1]]
    /\ UNCHANGED <<syncVars, cacheVars, threadVars>>

\* the place of the guard operation that ends the cycle of op: the write
\* guard of sync_engines is dropped
CycleEnd(op) ==
    CHOOSE i \in 1..Len(LockPlan(op)) :
        /\ LockPlan(op)[i] = Release("sync_engines")
        /\ \A j \in (i + 1)..Len(LockPlan(op)) : LockPlan(op)[j] # Release("sync_engines")

\* a `?` inside sync_account_engine (lines 271-313) returns early: the guards
\* of storage and search_index taken by the cycle are dropped
LockBail(p) ==
    /\ lockAt[p].op \in {"sync_account", "tick"}
    /\ [lock |-> "sync_engines", mode |-> "w"] \in held[p]
    /\ lockAt[p].at < CycleEnd(lockAt[p].op)
    /\ held' = [held EXCEPT ![p] = {g \in @ : g.lock = "sync_engines"}]
    /\ lockAt' = [lockAt EXCEPT ![p].at = CycleEnd(lockAt[p].op)]
    /\ UNCHANGED <<syncVars, cacheVars, threadVars>>

\* no method runs, no guard is held
LockInit ==
    /\ lockAt = [p \in Procs |-> NotRunning]
    /\ held = [p \in Procs |-> {}]

Init == SyncInit /\ CacheInit /\ ThreadInit /\ LockInit

\* ---------------------------------------------------------------- Next
Next ==
    \/ \E p \in Callers, a \in Accounts : CallSyncAccount(p, a)
    \/ \E p \in Callers : SyncAccountLock(p)
    \/ \E p \in Procs : CycleConnect(p)
    \/ \E p \in Procs : CycleMailboxes(p)
    \/ \E p \in Procs : CycleFetch(p)
    \/ \E p \in Procs : CycleDisconnect(p)
    \/ \E p \in Callers : GetStats(p)
    \/ \E p \in Callers : CallGetAllStatus(p)
    \/ \E p \in Callers : GetAllStatus(p)
    \/ StartBackgroundSync
    \/ StopBackgroundSync
    \/ SchedTick
    \/ SchedLock

Spec == Init /\ [][Next]_vars

\* -------------------------------------------- accounts and engines
\* the callers do not add and remove one id at the same time: no other caller
\* is inside add_account or remove_account for the id a
NoRival(p, a) ==
    \A q \in Callers \ {p} :
        ~(call[q].op \in {"add_account", "remove_account"} /\ call[q].acct = a)

\* the manager without its scheduler: accounts are added, removed and synced
\* by the callers, and the operations of a Pop3Sync are called directly
AccountsNext ==
    \/ \E p \in Callers, a \in Accounts, t \in AccountType :
            NoRival(p, a) /\ CallAddAccount(p, a, t)
    \/ \E p \in Callers : AddAccountStore(p)
    \/ \E p \in Callers : AddAccountInsert(p)
    \/ \E p \in Callers, a \in Accounts : NoRival(p, a) /\ CallRemoveAccount(p, a)
    \/ \E p \in Callers : RemoveAccountEngine(p)
    \/ \E p \in Callers : RemoveAccountStore(p)
    \/ \E p \in Callers, a \in Accounts : CallSyncAccount(p, a)
    \/ \E p \in Callers : SyncAccountLock(p)
    \/ \E p \in Callers : CycleConnect(p)
    \/ \E p \in Callers : CycleMailboxes(p)
    \/ \E p \in Callers : CycleFetch(p)
    \/ \E p \in Callers : CycleDisconnect(p)
    \/ \E p \in Callers, op \in EngineOps : CallEngineOp(p, op)
    \/ \E p \in Callers : EngineOpReturn(p)

SpecAccounts == Init /\ [][AccountsNext]_vars

\* -------------------------------------------- the scheduler and its owner
\* the owner (c2) starts and stops the scheduler and drops the manager; the
\* caller c1 adds and removes accounts while no &mut self method runs
LifecycleNext ==
    \/ \E op \in {"start_background_sync", "stop_background_sync"} : CallLifecycle("c2", op)
    \/ StartBackgroundSyncBody("c2")
    \/ StopBackgroundSyncBody("c2")
    \/ DropManager
    \/ SchedTick
    \/ SchedLock
    \/ CycleConnect(Sched)
    \/ CycleMailboxes(Sched)
    \/ CycleFetch(Sched)
    \/ CycleDisconnect(Sched)
    \/ \E a \in Accounts, t \in AccountType : pc["c2"] = "idle" /\ CallAddAccount("c1", a, t)
    \/ AddAccountStore("c1")
    \/ AddAccountInsert("c1")
    \/ \E a \in Accounts : pc["c2"] = "idle" /\ CallRemoveAccount("c1", a)
    \/ RemoveAccountEngine("c1")
    \/ RemoveAccountStore("c1")

SpecLifecycle == Init /\ [][LifecycleNext]_vars

\* -------------------------------------------- the guards
\* the scheduler task and two callers run the methods in any interleaving
LocksNext ==
    \/ \E p \in Callers, op \in CallerOps : LockCall(p, op)
    \/ LockCall(Sched, "tick")
    \/ \E p \in Procs : LockStep(p)
    \/ \E p \in Procs : LockBail(p)

SpecLocks == Init /\ [][LocksNext]_vars

\* -------------------------------------------- the cache and its clients
\* time to live of a stored entry: none, or one unit of the clock
Ttls == {NoTime, 1}

\* one client calls the methods one after the other while the clock runs
CacheNext ==
    \/ \E k \in Keys, b \in Blobs, ttl \in Ttls : CallStore("w1", k, b, ttl)
    \/ StoreFind("w1")
    \/ StoreFile("w1")
    \/ StoreInsert("w1")
    \/ CallEnforceSizeLimit("w1")
    \/ EnforceSizeLimit("w1")
    \/ \E k \in Keys : Retrieve("w1", k)
    \/ \E k \in Keys : Remove("w1", k)
    \/ CleanupExpired("w1")
    \/ ClockTick

SpecCache == Init /\ [][CacheNext]_vars

\* two clients share the cache (it is Send + Sync and its methods take &self);
\* entries never expire and the clock stands still
SharedCacheNext ==
    \/ \E c \in CacheClients, k \in Keys, b \in Blobs : CallStore(c, k, b, NoTime)
    \/ \E c \in CacheClients : StoreFind(c)
    \/ \E c \in CacheClients : StoreFile(c)
    \/ \E c \in CacheClients : StoreInsert(c)
    \/ \E c \in CacheClients : CallEnforceSizeLimit(c)
    \/ \E c \in CacheClients : EnforceSizeLimit(c)
    \/ \E c \in CacheClients, k \in Keys : Retrieve(c, k)
    \/ \E c \in CacheClients, k \in Keys : Remove(c, k)

SpecCacheShared == Init /\ [][SharedCacheNext]_vars

\* ------------------------------------------------ the pure functions
\* one call of group_into_threads on a list of messages
ThreadsNext ==
    \/ GroupIntoThreads(ChainShapes, MaxMsgs)
    \/ GroupIntoThreads(SummaryShapes, MaxSummaryMsgs)
    \/ GroupIntoThreads(StructureShapes, MaxMsgs)

SpecThreads == Init /\ [][ThreadsNext]_vars

\* one call of normalize_subject on a subject
SubjectNext ==
    \/ NormalizeSubject(Examples)
    \/ \E n \in 0..MaxSubjectLen : NormalizeSubject([1..n -> SubjectChars])

SpecSubject == Init /\ [][SubjectNext]_vars

\* -------------------------------------------- operations that do not return
\* lines 271, 274, 286: the future of an engine operation (TcpStream::connect,
\* login, list, fetch of ImapSync) is awaited with nothing around it; when the
\* server never answers, the await never completes.  The process stays inside
\* sync_account_engine, with its locals and the write guard of sync_engines
CycleHang(p) ==
    /\ pc[p] \in {"connect", "mailboxes", "fetch"}
    /\ engines[cyc[p].acct] = "Imap"
    /\ pc' = [pc EXCEPT ![p] = "hung"]
    /\ UNCHANGED <<engineVars, rwWriter, stats, ctlVars, call, ret, pending, cyc, dbVars,
                   boundVars>>
    /\ UNCHANGED <<cacheVars, threadVars, lockVars>>

\* the callers sync accounts and query the statuses; a server may stop answering
HangNext ==
    \/ \E p \in Callers, a \in Accounts : CallSyncAccount(p, a)
    \/ \E p \in Callers : SyncAccountLock(p)
    \/ \E p \in Callers : CycleConnect(p)
    \/ \E p \in Callers : CycleMailboxes(p)
    \/ \E p \in Callers : CycleFetch(p)
    \/ \E p \in Callers : CycleDisconnect(p)
    \/ \E p \in Callers : CycleHang(p)
    \/ \E p \in Callers : GetStats(p)
    \/ \E p \in Callers : CallGetAllStatus(p)
    \/ \E p \in Callers : GetAllStatus(p)

\* the runtime keeps polling tasks that can make a step
SpecHang == Init /\ [][HangNext]_vars /\ WF_vars(HangNext)

\* ---------------------------------------------------------------- properties
\* p's cycle ends in this step by sync_account_engine returning (not by the
\* scheduler task being aborted)
CycleReturns(p) == InCycle(p) /\ pc'[p] \notin CyclePhases /\ pc'[p] # "cancelled"

\* C1: at most one cycle per account is in progress at any time: two processes
\* (the scheduler, manual sync_account calls) are never both between connect
\* and the end of a cycle for the same account, and a process inside a cycle
\* holds the write guard of sync_engines
C1_OneCyclePerAccount ==
    /\ \A p, q \in Procs :
         (InCycle(p) /\ InCycle(q) /\ cyc[p].acct = cyc[q].acct) => p = q
    /\ \A p \in Procs : InCycle(p) => rwWriter = p

\* C1's case: a cycle is in progress for an account while another process
\* wants to start a cycle for the same account
C1_Witness_Contention ==
    \E p, q \in Procs :
        /\ p # q
        /\ InCycle(p)
        /\ pc[q] = "lock"
        /\ cyc[q].acct = cyc[p].acct

\* C2: every cycle in which connect was attempted ends with a disconnect
\* attempt: sync_account_engine returns only from its disconnect step
C2_DisconnectOnEveryExit ==
    [][\A p \in Procs : CycleReturns(p) => pc[p] = "disconnect"]_vars

\* C3: in a background tick, a cycle that fails (returns before its disconnect
\* step) adds one to failed_syncs and nothing to successful_syncs, and the
\* scheduler task goes on: to the cycle of a remaining account of the snapshot
\* while there is one, and to the next tick otherwise
C3_FailureCountedLoopGoesOn ==
    [][(CycleReturns(Sched) /\ pc[Sched] # "disconnect") =>
          /\ stats'.failed_syncs = stats.failed_syncs + 1
          /\ stats'.successful_syncs = stats.successful_syncs
          /\ background_task' = background_task
          /\ IF pending = {}
             THEN pc'[Sched] = "tick" /\ pending' = {}
             ELSE /\ pc'[Sched] = "lock"
                  /\ cyc'[Sched].acct \in pending
                  /\ pending' = pending \ {cyc'[Sched].acct}]_vars

\* C3's case: a cycle of the tick has failed and the scheduler is inside the
\* cycle of another account
C3_Witness_NextAccountRuns ==
    /\ stats.failed_syncs >= 1
    /\ InCycle(Sched)
    /\ background_task

C5_UnknownIdNotFound ==
    [][\A p \in Callers :
          (pc[p] = "lock" /\ pc'[p] # "lock" /\ engines[cyc[p].acct] = "None") =>
             /\ ret' = MkResult("NotFound", 0, 0, 0)
             /\ pc'[p] = "idle"
             /\ UNCHANGED <<engineVars, stats, rwWriter, dbVars>>]_vars

\* C5's case: NotFound was returned at a time when the stats held counts
C5_Witness_NotFound ==
    /\ ret.res = "NotFound"
    /\ stats # DefaultStats

C7_RunningWhileInCycle ==
    \A a \in Accounts :
        engines[a] # "None" =>
            (status[a] = "Running" <=> \E p \in Procs : InCycle(p) /\ cyc[p].acct = a)

C9_EveryCycleCounted ==
    [][\A p \in Procs :
          CycleReturns(p) =>
             LET ok == /\ stats'.successful_syncs = stats.successful_syncs + 1
                       /\ stats'.failed_syncs = stats.failed_syncs
                 failed == /\ stats'.failed_syncs = stats.failed_syncs + 1
                           /\ stats'.successful_syncs = stats.successful_syncs
             IN /\ ok \/ failed
                /\ ok => stats'.total_messages_synced =
                             stats.total_messages_synced + cyc[p].synced]_vars

\* C10: a status query never waits for a cycle: whenever get_all_status is at
\* its read of sync_engines, the read guard can be granted
C10_QueryNeverWaits ==
    \A p \in Callers : pc[p] = "status_read" => CanRead(p)

C12_EngineByAccountType ==
    [][\A p \in Callers :
          (pc[p] = "add_lock" /\ pc'[p] = "idle") =>
             engines'[call[p].acct] = IF call[p].type = "Pop3" THEN "Pop3" ELSE "Imap"]_vars

\* C13: connect, sync_mailboxes and sync_mailbox_messages of the POP3 engine
\* return an Unsupported error
C13_Pop3OpsUnsupported ==
    [][\A p \in Callers :
          (/\ pc[p] = "engine_op"
           /\ pc'[p] = "idle"
           /\ call[p].op \in {"connect", "sync_mailboxes", "sync_mailbox_messages"}) =>
             ret'.res = "Unsupported"]_vars

\* C14: when a cycle for an account completes, the account's last_sync_result
\* holds a result
C14_LastResultRecorded ==
    [][\A p \in Procs :
          CycleReturns(p) => lastResult'[cyc[p].acct] # "None"]_vars

RetrieveStep(k) ==
    /\ cops' = cops + 1
    /\ cpc' = cpc
    /\ cret'.op = "retrieve"
    /\ cret'.key = k

\* the step ends a call of store by client c
StoreReturns(c) ==
    /\ cloc[c].op = "store"
    /\ cpc[c] # "idle"
    /\ cpc'[c] = "idle"

\* the step ends a run of enforce_size_limit by client c
EnforceStep(c) ==
    /\ cpc[c] = "enforce"
    /\ cpc'[c] = "idle"

\* the keys whose entries the step deletes
Deleted == {k \in Keys : entries[k].present /\ ~entries'[k].present}

\* C16: retrieve(k) for a present key that has not expired returns the bytes
\* most recently stored under k (the bytes whose hash the entry of k carries)
C16_RetrieveReturnsStored ==
    [][\A k \in Keys :
          (RetrieveStep(k) /\ Present(k) /\ ~Expired(entries[k])) =>
             /\ cret'.res = "Some"
             /\ calculate_hash(cret'.data) = entries[k].content_hash]_vars

\* C17: a step that deletes entries (remove, expiry, eviction) leaves every
\* other entry with its file, the bytes of its file and its content hash
C17_RemovalKeepsOtherKeys ==
    [][Deleted # {} =>
         \A k \in Keys :
            (entries[k].present /\ entries'[k].present) =>
               /\ fsLink'[entries[k].file_path] = fsLink[entries[k].file_path]
               /\ FileExists(entries[k].file_path) =>
                     fsData'[fsLink'[entries[k].file_path]] = FileBytes(entries[k].file_path)
               /\ entries'[k].content_hash = entries[k].content_hash]_vars

\* one new store and one store of known content made two entries of the bytes
\* "x", then remove("k1") has returned true and "temp:k2" still has the bytes
C17_Witness_OtherKeyKeepsBytes ==
    /\ cops = 3
    /\ cstats.hits = 1
    /\ cret = MkCacheRet("remove", "k1", "true", NoBlob)
    /\ PresentKeys = {"temp:k2"}
    /\ FileBytes(get_file_path("temp:k2")) = "x"
    /\ entries["temp:k2"].content_hash = calculate_hash("x")

\* C18: a store of bytes that the cache holds already (under the same key or
\* under another one) returns Ok
C18_StoreOfKnownContentSucceeds ==
    [][\A c \in CacheClients :
          (StoreReturns(c) /\ cloc[c].found # NoKey) => cret'.res = "Ok"]_vars

C20_EvictsOldestUntilWithinBudget ==
    [][\A c \in CacheClients :
          EnforceStep(c) =>
             /\ TotalSize(entries') <= MaxSize
             /\ \A k \in Keys : entries'[k] \in {entries[k], NoEntry}
             /\ \A e \in Deleted : \A k \in Keys :
                   entries'[k].present => entries[e].accessed_at <= entries[k].accessed_at
             /\ TotalSize(entries) <= MaxSize => Deleted = {}
             /\ Deleted # {} =>
                   \E e \in Deleted : TotalSize(entries') + entries[e].size > MaxSize]_vars

\* two stores of new content, "k1" first and "temp:k2" one unit of time
\* later, went over the budget and the older entry "k1" was evicted
C20_Witness_OldestEvicted ==
    /\ cops = 2
    /\ cstats.hits = 2
    /\ cret = MkCacheRet("store", "temp:k2", "Ok", NoBlob)
    /\ PresentKeys = {"temp:k2"}
    /\ entries["temp:k2"].accessed_at = 1
    /\ fsLink[get_file_path("temp:k2")] = 2
    /\ fsLink[get_file_path("k1")] = 0

\* C21: the counters count retrieves only: a retrieve that returns data adds
\* one to hits, a retrieve that returns None adds one to misses, and no other
\* step (a step of store among them) changes a counter
C21_CountersCountRetrievesOnly ==
    [][IF \E k \in Keys : RetrieveStep(k)
       THEN IF cret'.res = "Some"
            THEN cstats' = [cstats EXCEPT !.hits = @ + 1]
            ELSE cstats' = [cstats EXCEPT !.misses = @ + 1]
       ELSE cstats' = cstats]_vars

\* the subjects that the examples are to give
OriginalSubject == <<"o", "r", "i", "g", "i", "n", "a", "l", " ", "s", "u", "b", "j", "e",
                      "c", "t">>
Important == <<"i", "m", "p", "o", "r", "t", "a", "n", "t">>
MultipleSpaces == <<"m", "u", "l", "t", "i", "p", "l", "e", " ", "s", "p", "a", "c", "e",
                     "s">>

\* C28: normalize_subject gives "original subject" for "Re: Re: Original
\* Subject", "important" for "[List] Fwd: Important" and for "[List] Re: Fwd:
\* Important", "multiple spaces" for "  Re:   Multiple   Spaces  "; and what it
\* gives for any subject is in lower case, has no white space at its ends and
\* no two adjacent spaces, and does not begin with a reply or forward token
\* and its colon
C28_NormalizeSubject ==
    raw # NoString =>
       /\ raw = Example1 => normalized = OriginalSubject
       /\ raw = Example2 => normalized = Important
       /\ raw = Example3 => normalized = Important
       /\ raw = Example4 => normalized = MultipleSpaces
       /\ \A i \in 1..Len(normalized) :
             /\ ToLower(normalized[i]) = normalized[i]
             /\ IsSpace(normalized[i]) =>
                   i \notin {1, Len(normalized)} /\ ~IsSpace(normalized[i + 1])
       /\ AfterToken(normalized, 1) = {}

\* the bracketed tag and both tokens of "[List] Re: Fwd: Important" are gone
C28_Witness_TagAndTokensStripped ==
    raw = Example3 /\ normalized = Important

\* ---- what a call of group_into_threads returned
Returned == threads.res = "Ok"
ThreadAt(k) == threads.list[k]
ThreadIndexes == 1..Len(threads.list)
InputIndexes == 1..Len(input_msgs)
\* the places (thread, position) at which the message with the uid i appears
Places(i) ==
    {pl \in ThreadIndexes \X (1..MaxMsgs) :
        /\ pl[2] <= Len(ThreadAt(pl[1]).messages)
        /\ ThreadAt(pl[1]).messages[pl[2]].uid = i}
Ascending(ms) == \A j \in 1..(Len(ms) - 1) : ms[j].date <= ms[j + 1].date
InputMessageIds == {input_msgs[i].message_id : i \in InputIndexes} \ {NoId}

\* C22: group_into_threads returns, and every message of the input is in
\* exactly one thread, exactly once
C22_EveryMessageExactlyOnce ==
    threads.res # "None" =>
       /\ Returned
       /\ \A i \in InputIndexes : Cardinality(Places(i)) = 1

\* C23: the messages that carry one server_thread_id are all in one thread,
\* the only thread with that id, and its messages are in ascending date order
C23_ServerThreadIdWins ==
    Returned =>
       \A i \in InputIndexes :
          input_msgs[i].server_thread_id # NoId =>
             /\ Cardinality({k \in ThreadIndexes :
                               ThreadAt(k).id = input_msgs[i].server_thread_id}) = 1
             /\ Cardinality(Places(i)) = 1
             /\ \A pl \in Places(i) :
                   /\ ThreadAt(pl[1]).id = input_msgs[i].server_thread_id
                   /\ Ascending(ThreadAt(pl[1]).messages)

\* two messages of the server thread "t", the later one first in the input
\* and both with headers of their own, and a message without a server thread
\* id: two threads
C23_Witness_TwoInServerThread ==
    /\ Returned
    /\ Len(input_msgs) = 3
    /\ input_msgs[1].server_thread_id = "t" /\ input_msgs[1].date = 2
    /\ input_msgs[1].in_reply_to = "a"
    /\ input_msgs[2].server_thread_id = "t" /\ input_msgs[2].date = 1
    /\ input_msgs[3].server_thread_id = NoId /\ input_msgs[3].message_id = "a"
    /\ Len(threads.list) = 2
    /\ \E k \in ThreadIndexes :
          ThreadAt(k).id = "t" /\ Len(ThreadAt(k).messages) = 2

\* the input is the chain A, B, C, with increasing dates, in some order
IsChain ==
    /\ Len(input_msgs) = 3
    /\ \E da, db, dc \in AllDates :
          /\ da < db /\ db < dc
          /\ {[input_msgs[i] EXCEPT !.uid = 0] : i \in InputIndexes}
               = {ChainA(da), ChainB(db), ChainC(dc)}

\* C24: the chain A, B (In-Reply-To A), C (References A, B) with increasing
\* dates gives one thread with the messages A, B, C in this order, whatever
\* the order of the input
C24_ChainIsOneThread ==
    IsChain =>
       /\ Returned
       /\ Len(threads.list) = 1
       /\ [j \in 1..Len(ThreadAt(1).messages) |-> ThreadAt(1).messages[j].message_id]
            = <<"a", "b", "c">>

\* the chain given in the order C, A, B came back as one thread
C24_Witness_ChainOutOfOrder ==
    /\ IsChain
    /\ input_msgs[1].message_id = "c"
    /\ input_msgs[2].message_id = "a"
    /\ Returned
    /\ Len(threads.list) = 1

\* message i has no server thread id and its In-Reply-To, or the last of its
\* References, names a Message-ID that no message of the input has
RefersToAbsent(i) ==
    LET m == input_msgs[i]
    IN /\ m.server_thread_id = NoId
       /\ \/ m.in_reply_to # NoId /\ m.in_reply_to \notin InputMessageIds
          \/ m.references # <<>> /\ m.references[Len(m.references)] \notin InputMessageIds

\* no two messages of the input have the same Message-ID
DistinctIds ==
    \A i, j \in InputIndexes :
       i # j /\ input_msgs[i].message_id # NoId =>
          input_msgs[i].message_id # input_msgs[j].message_id

\* no other message of the input names message i in its In-Reply-To or
\* References
NoReplies(i) ==
    \/ input_msgs[i].message_id = NoId
    \/ \A j \in InputIndexes \ {i} :
          /\ input_msgs[j].in_reply_to # input_msgs[i].message_id
          /\ input_msgs[i].message_id \notin Range(input_msgs[j].references)

\* C25: when the Message-IDs are distinct, group_into_threads returns, and a
\* message that refers to an absent Message-ID, and that no message refers
\* to, is in exactly one thread, which holds this message only
C25_OrphanIsSingleton ==
    threads.res # "None" /\ DistinctIds =>
       /\ Returned
       /\ \A i \in InputIndexes :
             RefersToAbsent(i) /\ NoReplies(i) =>
                /\ Cardinality(Places(i)) = 1
                /\ \A pl \in Places(i) : Len(ThreadAt(pl[1]).messages) = 1

\* C26: the threads are in descending order of last_date
C26_ThreadsByLastDateDescending ==
    Returned =>
       \A k \in 1..(Len(threads.list) - 1) :
          ThreadAt(k).last_date >= ThreadAt(k + 1).last_date

\* the older message came first in the input, its thread comes last
C26_Witness_NewerThreadFirst ==
    /\ Returned
    /\ Len(input_msgs) = 2
    /\ input_msgs[1].date < input_msgs[2].date
    /\ Len(threads.list) = 2
    /\ ThreadAt(1).messages[1].uid = 2
    /\ ThreadAt(2).messages[1].uid = 1
    /\ ThreadAt(1).last_date > ThreadAt(2).last_date

\* C27: the list that group_into_threads returns is the same for every order
\* in which the bucket map yields its entries
C27_SameOrderOnEveryRun ==
    Returned =>
       \A ord \in IterationOrders(DOMAIN Buckets(input_msgs).map) :
          Grouped(Buckets(input_msgs).map, ord) = threads.list

\* the canonical subject of the subjects of the model
CanonicalOf(subject) == IF subject = SubjectReX THEN SubjectX ELSE subject

\* C29: in every thread the messages are in ascending date order, last_date
\* is the date of the last message, any_unread and has_attachments say
\* whether some message is unread or has attachments, and the subject is the
\* canonical subject of the last message
C29_ThreadSummaries ==
    Returned =>
       \A k \in ThreadIndexes :
          LET t == ThreadAt(k)
              n == Len(t.messages)
          IN /\ n >= 1
             /\ Ascending(t.messages)
             /\ t.last_date = t.messages[n].date
             /\ t.any_unread <=> \E j \in 1..n : ~t.messages[j].is_read
             /\ t.has_attachments <=> \E j \in 1..n : t.messages[j].has_attachments
             /\ t.subject = CanonicalOf(t.messages[n].subject)

\* a thread of two messages given with the later one first: the earlier one
\* is unread and has attachments, the later one is read, has none and has
\* the subject "Re: x"
C29_Witness_SummaryOfTwo ==
    /\ Returned
    /\ Len(input_msgs) = 2
    /\ input_msgs[1].date = 2 /\ input_msgs[1].is_read /\ ~input_msgs[1].has_attachments
    /\ input_msgs[1].subject = SubjectReX
    /\ input_msgs[2].date = 1 /\ ~input_msgs[2].is_read /\ input_msgs[2].has_attachments
    /\ input_msgs[2].subject = SubjectY
    /\ Len(threads.list) = 1
    /\ ThreadAt(1).messages = <<input_msgs[2], input_msgs[1]>>
    /\ ThreadAt(1).any_unread /\ ThreadAt(1).has_attachments
    /\ ThreadAt(1).last_date = 2
    /\ ThreadAt(1).subject = SubjectX

\* C30: last_is_outgoing_reply holds iff the last message of the thread is
\* outgoing and has an In-Reply-To or References, whatever its subject
C30_LastIsOutgoingReply ==
    Returned =>
       \A k \in ThreadIndexes :
          LET last == ThreadAt(k).messages[Len(ThreadAt(k).messages)]
          IN ThreadAt(k).last_is_outgoing_reply <=>
                /\ last.is_outgoing
                /\ last.in_reply_to # NoId \/ last.references # <<>>

\* C31: no thread holds both a message with a server_thread_id and a message
\* without one
C31_ServerThreadsStayApart ==
    Returned =>
       \A k \in ThreadIndexes :
          \A m1, m2 \in Range(ThreadAt(k).messages) :
             (m1.server_thread_id = NoId) <=> (m2.server_thread_id = NoId)

\* C38: group_into_threads returns for every input
C38_GroupingTerminates == threads.res # "StackOverflow"

\* C39: normalize_subject applied to its own result changes nothing
C39_NormalizeIdempotent ==
    raw # NoString => normalize_subject(normalized) = normalized

\* C37: after a store that returns Ok the sizes of all entries add up to at
\* most max_size
C37_StoreKeepsBudget ==
    [][\A c \in CacheClients :
          (StoreReturns(c) /\ cret'.res = "Ok") => TotalSize(entries') <= MaxSize]_vars

\* C35: while no add_account or remove_account is in progress the engine map
\* and table accounts name the same accounts (an add or remove that returned
\* an error changed neither)
C35_EnginesAndStorageAgree ==
    (\A p \in Callers : call[p].op \notin {"add_account", "remove_account"}) =>
       {a \in Accounts : engines[a] # "None"} = dbAccounts

\* the account ids of the tick that the for loop has not finished: the one it
\* is at and those still to come
Worklist == pending \cup ({cyc[Sched].acct} \ {NoAcct})
Registered == {a \in Accounts : engines[a] # "None"}

\* C32: a tick takes the registered account ids when it starts and nothing is
\* added to them while it runs; an id whose engine is gone when its turn comes
\* is skipped (no result is recorded, the for loop goes on with the other
\* ids), and a cycle is started only for an id that has an engine
C32_TickWorksOnSnapshot ==
    [][/\ ticks' = ticks + 1 => Worklist' = Registered
       /\ ticks' = ticks => Worklist' \subseteq Worklist
       /\ (pc[Sched] = "lock" /\ pc'[Sched] = "connect") =>
             engines[cyc[Sched].acct] # "None"
       /\ (pc[Sched] = "lock" /\ TaskRunning' /\ engines[cyc[Sched].acct] = "None"
             /\ cyc'[Sched] # cyc[Sched]) =>
             /\ stats' = stats
             /\ ret' = ret
             /\ Worklist' = pending
             /\ pc'[Sched] = IF pending = {} THEN "tick" ELSE "lock"]_vars

\* the for loop is at an id whose engine was removed after the snapshot, with
\* another id still to come, while a3, added after the snapshot (no cycle has
\* ended yet), is not among the ids of the tick
C32_Witness_RemovedAndAdded ==
    /\ pc[Sched] = "lock"
    /\ engines[cyc[Sched].acct] = "None"
    /\ pending # {}
    /\ engines["a3"] # "None"
    /\ "a3" \notin Worklist
    /\ stats = DefaultStats

\* a call of stop_background_sync or start_background_sync returns
StopReturns(p) == pc[p] = "stop_background_sync" /\ pc'[p] = "idle"
StartReturns(p) == pc[p] = "start_background_sync" /\ pc'[p] = "idle"

\* C33: stop_background_sync with no handle held returns Ok and leaves the
\* engines, the stats, the handle and the scheduler as they are; after the
\* manager is dropped no scheduler task runs and none holds the write guard
C33_StopIsSafeAndDropCancels ==
    [][/\ \A p \in Callers :
             (StopReturns(p) /\ ~background_task) =>
                /\ ret'.res = "Ok"
                /\ UNCHANGED <<engines, session, status, lastResult, stats, background_task>>
                /\ pc'[Sched] = pc[Sched]
       /\ (\A p \in Callers : pc'[p] = "dropped") =>
             ~TaskRunning' /\ rwWriter' # Sched]_vars

\* the task was running (the last call that returned was a start refused as
\* InvalidState) when the manager was dropped: the task is cancelled
C33_Witness_DroppedWhileRunning ==
    /\ \A p \in Callers : pc[p] = "dropped"
    /\ ret.res = "InvalidState"
    /\ calls = 0
    /\ pc[Sched] = "cancelled"
    /\ ~background_task

\* C34: a scheduler task exists iff its handle is held; start while the handle
\* is held returns InvalidState and leaves task and handle as they are, and
\* start without a handle (also after a stop) returns Ok with a task running
C34_AtMostOneTask ==
    [][/\ TaskRunning' <=> background_task'
       /\ \A p \in Callers :
             StartReturns(p) =>
                IF background_task
                THEN /\ ret'.res = "InvalidState"
                     /\ pc'[Sched] = pc[Sched]
                     /\ UNCHANGED <<background_task, cyc, pending, rwWriter>>
                ELSE /\ ret'.res = "Ok"
                     /\ TaskRunning' /\ background_task']_vars

\* a task was stopped in the middle of its tick (a tick began, no result was
\* recorded, no account was removed), a start after that succeeded, and a
\* further start was refused
C34_Witness_RestartThenRefused ==
    /\ ret.res = "InvalidState"
    /\ calls = 0
    /\ ticks = 1
    /\ stats = DefaultStats
    /\ pc[Sched] = "tick"
    /\ background_task

\* task p waits for a guard that it cannot get
Blocked(p) ==
    /\ lockAt[p] # NotRunning
    /\ NextLockStep(p).k = "acq"
    /\ ~Available(NextLockStep(p).lock, NextLockStep(p).mode)

\* C36: whenever some task is inside a method, some task can take its next
\* step: the tasks are never all waiting for guards
C36_NoDeadlock ==
    (\E p \in Procs : lockAt[p] # NotRunning) =>
       \E p \in Procs : lockAt[p] # NotRunning /\ ~Blocked(p)

\* a task inside a cycle holds the guards of sync_engines, storage and
\* search_index while one task waits for sync_engines and another for storage
C36_Witness_Contention ==
    \E p, q, r \in Procs :
        /\ {g.lock : g \in held[p]} = {"sync_engines", "storage", "search_index"}
        /\ Blocked(q) /\ NextLockStep(q).lock = "sync_engines"
        /\ Blocked(r) /\ NextLockStep(r).lock = "storage"

====
